---- MODULE Spec2Model ----
(***************************************************************************)
(* State machine of the session controller AppContent of DD-Studio         *)
(* (src/components/PresetSelector.tsx, lines 351-1241): the preset          *)
(* selections and their toggle handlers, the auto-analysis effect, the     *)
(* asynchronous generation pipelines, and the generation history.          *)
(*                                                                         *)
(* Every React state cell that the handlers read or write is a variable    *)
(* with the name it has in the source.  A handler is one action up to its  *)
(* `await`; the settling of the awaited call is a second action that runs  *)
(* the rest of the handler with the values its closure captured.  The      *)
(* useEffect of lines 478-500 runs in the same step as the handler that    *)
(* changed one of its dependencies.                                        *)
(***************************************************************************)
EXTENDS Integers, Sequences, FiniteSets, TLC

(***************************************************************************)
(* Bounds of the model.                                                    *)
(***************************************************************************)
\* external calls that may be outstanding at the same time
MaxCalls == 2
\* categories that one analysis response may name
MaxSuggestedCats == 1
\* ids in one suggestion list of an analysis response
MaxSuggestedIds == 2
\* presets other than the sentinel that the user clicks in each list (SpecPresets)
MaxClicked == 1
\* analysis calls outstanding at the same time in a behaviour of SpecPresets
MaxAnalyses == 1
\* history appends in a behaviour of SpecAppend (one more than the capacity)
MaxAppends == 13
\* external calls outstanding at the same time in a behaviour of SpecRuns
MaxRunCalls == 1
\* history appends in a behaviour of SpecRuns
MaxRunAppends == 1
\* history appends in a behaviour of SpecRace
MaxRaceAppends == 2
\* history appends in a behaviour of SpecOverlap
MaxOverlapAppends == 1
\* history appends in a behaviour of SpecSwitch
MaxSwitchAppends == 2

(***************************************************************************)
(* Values.                                                                 *)
(***************************************************************************)
\* JavaScript null (and undefined) in a state cell
NULL == "null"
\* isUpscaling is `false | UpscaleTarget`; the value false
NotUpscaling == "false"
UpscaleTarget == {"hd", "4k"}
AppMode == {"design-kit", "creative-studio"}
CreativeMode == {"illustrate", "retouch"}
RetouchSubMode == {"smart", "environment"}

\* ImageFile objects the user can upload, and results the service can return
Images == {"imgA", "imgB"}
Results == {"resA", "resB"}
Prompts == {"", "a prompt"}

(***************************************************************************)
(* The preset lists of constants.ts, which is not part of the sources at   *)
(* hand: a preset is represented by its id, every list holds the reserved  *)
(* preset "none" at index 0 and ids are unique within a list.              *)
(***************************************************************************)
CAMERA_PRESETS == <<"none", "cam1", "cam2", "cam3">>
LIGHTING_PRESETS == <<"none", "light1">>
MOCKUP_PRESETS == <<"none", "mock1", "mock2">>
MANIPULATION_PRESETS == <<"none", "manip1">>
PEOPLE_RETOUCH_PRESETS == <<"none", "people1">>
RETOUCH_PRESETS == <<"none", "retouch1">>
ENVIRONMENT_PRESETS == <<"Studio">>

VARIABLES
    \* mode
    appMode, creativeMode, retouchSubMode, isOnline,
    \* source images
    productImage, referenceImage, illustrationImage, personImage,
    \* result images
    generatedImage, illustrationResultImage, retouchResultImage,
    \* prompt texts
    customPrompt, illustrationCustomPrompt, artistCommand,
    \* preset selections
    selectedCameras, selectedLightings, selectedMockups,
    selectedManipulations, selectedPeopleRetouches, selectedRetouches,
    \* auto-analysis
    useMagicComposite, isAnalyzing, suggestedPresetIds,
    \* error slots
    error, creativeError, upscaleError,
    \* busy flags and status text
    isLoading, isGeneratingDKPrompt, isGeneratingCreative,
    isGeneratingIllustration, isVectorizing, isGeneratingPrompt,
    isGeneratingRetouchPrompts, isUpscaling, generationStatusText,
    \* history
    generationHistory,
    \* the external calls in flight, the clock read by new Date(), and the
    \* handler (with its argument) that ran last
    calls, clock, lastOp

modeVars == <<appMode, creativeMode, retouchSubMode, isOnline>>
imageVars == <<productImage, referenceImage, illustrationImage, personImage>>
resultVars == <<generatedImage, illustrationResultImage, retouchResultImage>>
promptVars == <<customPrompt, illustrationCustomPrompt, artistCommand>>
multiSelVars == <<selectedCameras, selectedLightings, selectedManipulations,
                  selectedPeopleRetouches, selectedRetouches>>
selVars == <<multiSelVars, selectedMockups>>
analysisVars == <<useMagicComposite, isAnalyzing, suggestedPresetIds>>
errorVars == <<error, creativeError, upscaleError>>
busyVars == <<isLoading, isGeneratingDKPrompt, isGeneratingCreative,
              isGeneratingIllustration, isVectorizing, isGeneratingPrompt,
              isGeneratingRetouchPrompts, isUpscaling, generationStatusText>>
vars == <<modeVars, imageVars, resultVars, promptVars, selVars, analysisVars,
          errorVars, busyVars, generationHistory, calls, clock, lastOp>>

\* the handler that ran last and its argument
Op(name, value) == [op |-> name, arg |-> value]

(***************************************************************************)
(* Array helpers.                                                          *)
(***************************************************************************)
\* Array.prototype.some / includes on ids
Includes(s, id) == \E i \in 1..Len(s) : s[i] = id

\* presets.find(p => p.id === id): the first such preset, or undefined
Find(presets, id) ==
    IF Includes(presets, id)
    THEN presets[CHOOSE i \in 1..Len(presets) :
                    /\ presets[i] = id
                    /\ \A j \in 1..(i - 1) : presets[j] # id]
    ELSE NULL

\* prev.filter(p => p.id !== id)
Without(s, id) == SelectSeq(s, LAMBDA p : p # id)

\* [item, ...prev].slice(0, n)
PrependSlice(item, prev, n) == SubSeq(<<item>> \o prev, 1, IF Len(prev) + 1 < n THEN Len(prev) + 1 ELSE n)

(***************************************************************************)
(* Preset selections (lines 503-526).                                      *)
(***************************************************************************)
\* lastOp.arg of a click on a preset: the preset and the selection before it
Click(preset, prev) == [preset |-> preset, prev |-> prev]

\* the branch of the toggle for a preset that is selected (lines 509-511)
ToggleSelected_NoSoleCheck(prev, nonePreset, preset) == Without(prev, preset)

ToggleSelected_SoleKept(prev, nonePreset, preset) ==
    IF Len(prev) = 1 THEN prev ELSE Without(prev, preset)

ToggleSelected(prev, nonePreset, preset) ==
    IF Len(prev) = 1 THEN <<nonePreset>> ELSE Without(prev, preset)

\* the branch of the toggle for a preset that is not selected (lines 512-514)
ToggleAbsent_NoneKept(prev, preset) == Append(prev, preset)

ToggleAbsent(prev, preset) == Append(Without(prev, "none"), preset)

\* the updater that createToggleHandler(setter, presets)(preset) hands to
\* the setter, applied to the selection prev (lines 504-516)
createToggleHandler_NoReset(prev, presets, preset) ==
    IF Includes(prev, preset)
    THEN ToggleSelected(prev, Find(presets, "none"), preset)
    ELSE ToggleAbsent(prev, preset)

\* the updater adding the preset whether or not it is selected
createToggleHandler_AlwaysAdds(prev, presets, preset) ==
    IF preset = "none" THEN <<Find(presets, "none")>> ELSE ToggleAbsent(prev, preset)

createToggleHandler(prev, presets, preset) ==
    LET isSelected == Includes(prev, preset)
        nonePreset == Find(presets, "none")
    IN  IF preset = "none" THEN <<nonePreset>>
        ELSE IF isSelected THEN ToggleSelected(prev, nonePreset, preset)
        ELSE ToggleAbsent(prev, preset)

\* the updater of handleMockupSelect (line 525); current[0]?.id of an empty
\* array is undefined
MockupUpdater_NoRevert(current, preset) == <<preset>>

MockupUpdater(current, preset) ==
    IF (IF Len(current) > 0 THEN current[1] ELSE NULL) = preset
    THEN <<MOCKUP_PRESETS[1]>>
    ELSE <<preset>>

Range(s) == {s[i] : i \in 1..Len(s)}

handleCameraToggle(preset) ==
    /\ selectedCameras' = createToggleHandler(selectedCameras, CAMERA_PRESETS, preset)
    /\ lastOp' = Op("handleCameraToggle", Click(preset, selectedCameras))
    /\ UNCHANGED <<selectedLightings, selectedManipulations, selectedPeopleRetouches,
                   selectedRetouches, selectedMockups>>
    /\ UNCHANGED <<modeVars, imageVars, resultVars, promptVars, analysisVars,
                   errorVars, busyVars, generationHistory, calls, clock>>

handleLightingToggle(preset) ==
    /\ selectedLightings' = createToggleHandler(selectedLightings, LIGHTING_PRESETS, preset)
    /\ lastOp' = Op("handleLightingToggle", Click(preset, selectedLightings))
    /\ UNCHANGED <<selectedCameras, selectedManipulations, selectedPeopleRetouches,
                   selectedRetouches, selectedMockups>>
    /\ UNCHANGED <<modeVars, imageVars, resultVars, promptVars, analysisVars,
                   errorVars, busyVars, generationHistory, calls, clock>>

handleManipulationToggle(preset) ==
    /\ selectedManipulations' =
           createToggleHandler(selectedManipulations, MANIPULATION_PRESETS, preset)
    /\ lastOp' = Op("handleManipulationToggle", Click(preset, selectedManipulations))
    /\ UNCHANGED <<selectedCameras, selectedLightings, selectedPeopleRetouches,
                   selectedRetouches, selectedMockups>>
    /\ UNCHANGED <<modeVars, imageVars, resultVars, promptVars, analysisVars,
                   errorVars, busyVars, generationHistory, calls, clock>>

handlePeopleRetouchToggle(preset) ==
    /\ selectedPeopleRetouches' =
           createToggleHandler(selectedPeopleRetouches, PEOPLE_RETOUCH_PRESETS, preset)
    /\ lastOp' = Op("handlePeopleRetouchToggle", Click(preset, selectedPeopleRetouches))
    /\ UNCHANGED <<selectedCameras, selectedLightings, selectedManipulations,
                   selectedRetouches, selectedMockups>>
    /\ UNCHANGED <<modeVars, imageVars, resultVars, promptVars, analysisVars,
                   errorVars, busyVars, generationHistory, calls, clock>>

handleRetouchToggle(preset) ==
    /\ selectedRetouches' = createToggleHandler(selectedRetouches, RETOUCH_PRESETS, preset)
    /\ lastOp' = Op("handleRetouchToggle", Click(preset, selectedRetouches))
    /\ UNCHANGED <<selectedCameras, selectedLightings, selectedManipulations,
                   selectedPeopleRetouches, selectedMockups>>
    /\ UNCHANGED <<modeVars, imageVars, resultVars, promptVars, analysisVars,
                   errorVars, busyVars, generationHistory, calls, clock>>

handleMockupSelect(preset) ==
    /\ selectedMockups' = MockupUpdater(selectedMockups, preset)
    /\ lastOp' = Op("handleMockupSelect", Click(preset, selectedMockups))
    /\ UNCHANGED <<multiSelVars, modeVars, imageVars, resultVars, promptVars,
                   analysisVars, errorVars, busyVars, generationHistory, calls, clock>>

\* a click on a preset of one of the multi-select PresetSelector lists
TogglePreset ==
    \/ \E p \in Range(CAMERA_PRESETS) : handleCameraToggle(p)
    \/ \E p \in Range(LIGHTING_PRESETS) : handleLightingToggle(p)
    \/ \E p \in Range(MANIPULATION_PRESETS) : handleManipulationToggle(p)
    \/ \E p \in Range(PEOPLE_RETOUCH_PRESETS) : handlePeopleRetouchToggle(p)
    \/ \E p \in Range(RETOUCH_PRESETS) : handleRetouchToggle(p)

\* a click on a preset of the mockup list
SelectMockup == \E p \in Range(MOCKUP_PRESETS) : handleMockupSelect(p)

(***************************************************************************)
(* External calls in flight.  A call is the closure of the handler that    *)
(* awaits it: the function called and the values the rest of the handler   *)
(* reads after the await.                                                  *)
(***************************************************************************)
CallIds == 1..MaxCalls

CanIssue == Cardinality(calls) < MaxCalls

FreeId == CHOOSE i \in CallIds : \A c \in calls : c.id # i

NewCall(fn, source, prompt, mode, sub, target) ==
    [id |-> FreeId, fn |-> fn, source |-> source, prompt |-> prompt,
     mode |-> mode, sub |-> sub, target |-> target]

\* the failures a call can reject with: an Error with a message, or a value
\* that is not an Error
Failures == {"Network request failed", "not an Error"}

\* the message of a failure with nothing stored for a value that is not an
\* Error
MessageOf_NoFallback(e, fallback) == IF e = "not an Error" THEN NULL ELSE e

\* e instanceof Error ? e.message : fallback
MessageOf(e, fallback) == IF e = "not an Error" THEN fallback ELSE e

(***************************************************************************)
(* The auto-analysis effect (lines 478-500).                               *)
(***************************************************************************)
\* the suggestion map {}: a map is a set of <<category, ids>> entries
EmptyMap == {}

SuggestionKeys == {"camera", "lighting", "manipulation", "retouch", "peopleRetouch"}

\* the preset list that the effect filters for a key of the map
PresetsOf(key) ==
    CASE key = "camera" -> CAMERA_PRESETS
      [] key = "lighting" -> LIGHTING_PRESETS
      [] key = "manipulation" -> MANIPULATION_PRESETS
      [] key = "retouch" -> RETOUCH_PRESETS
      [] key = "peopleRetouch" -> PEOPLE_RETOUCH_PRESETS

\* suggestions[key], the empty list when the key is missing
Get(suggestions, key) ==
    IF \E e \in suggestions : e[1] = key
    THEN (CHOOSE e \in suggestions : e[1] = key)[2]
    ELSE <<>>

\* PRESETS.filter(p => ids.includes(p.id))
FilterSuggested(presets, ids) == SelectSeq(presets, LAMBDA p : Includes(ids, p))

\* the condition without the magic-composite flag
EffectFires_FlagIgnored(changed, mode, product, reference, magic) ==
    /\ changed
    /\ mode = "design-kit"
    /\ product # NULL
    /\ reference # NULL

\* the effect's condition (line 480), on the values of its dependencies
\* after the handler, given that one of them changed
EffectFires(changed, mode, product, reference, magic) ==
    /\ changed
    /\ mode = "design-kit"
    /\ product # NULL
    /\ reference # NULL
    /\ magic

\* the arguments of analyzeForCompositeSuggestions(productImage,
\* referenceImage) (line 484), as one value
ImagePair(product, reference) == product \o "+" \o reference

\* the effect up to its await (lines 480-484)
runAnalysis(fires, product, reference) ==
    IF fires
    THEN /\ CanIssue
         /\ isAnalyzing' = TRUE
         /\ suggestedPresetIds' = EmptyMap
         /\ calls' = calls \cup
                {NewCall("analyzeForCompositeSuggestions", ImagePair(product, reference),
                         NULL, NULL, NULL, NULL)}
    ELSE UNCHANGED <<isAnalyzing, suggestedPresetIds, calls>>

\* the statement adding the suggested presets to the selection
ApplySuggestion_Merges(prev, presets, ids) ==
    IF Len(ids) > 0 THEN prev \o FilterSuggested(presets, ids) ELSE prev

\* one statement of lines 485-489
ApplySuggestion(prev, presets, ids) ==
    IF Len(ids) > 0 THEN FilterSuggested(presets, ids) ELSE prev

\* the analysis call fulfils with the map suggestions (lines 485-490, 495)
analyzeFulfilled(c, suggestions) ==
    /\ c \in calls /\ c.fn = "analyzeForCompositeSuggestions"
    /\ selectedCameras' =
           ApplySuggestion(selectedCameras, CAMERA_PRESETS, Get(suggestions, "camera"))
    /\ selectedLightings' =
           ApplySuggestion(selectedLightings, LIGHTING_PRESETS, Get(suggestions, "lighting"))
    /\ selectedManipulations' =
           ApplySuggestion(selectedManipulations, MANIPULATION_PRESETS,
                           Get(suggestions, "manipulation"))
    /\ selectedRetouches' =
           ApplySuggestion(selectedRetouches, RETOUCH_PRESETS, Get(suggestions, "retouch"))
    /\ selectedPeopleRetouches' =
           ApplySuggestion(selectedPeopleRetouches, PEOPLE_RETOUCH_PRESETS,
                           Get(suggestions, "peopleRetouch"))
    /\ suggestedPresetIds' = suggestions
    /\ isAnalyzing' = FALSE
    /\ calls' = calls \ {c}
    /\ lastOp' = Op("analyzeFulfilled", suggestions)
    /\ UNCHANGED <<selectedMockups, useMagicComposite>>
    /\ UNCHANGED <<modeVars, imageVars, resultVars, promptVars, errorVars, busyVars,
                   generationHistory, clock>>

\* the rejection putting every multi-select list back to its default
analyzeRejected_ResetsSelections(c) ==
    /\ c \in calls /\ c.fn = "analyzeForCompositeSuggestions"
    /\ error' = "AI analysis failed. Please check the console for details."
    /\ isAnalyzing' = FALSE
    /\ calls' = calls \ {c}
    /\ lastOp' = Op("analyzeRejected", NULL)
    /\ selectedCameras' = <<CAMERA_PRESETS[1]>>
    /\ selectedLightings' = <<LIGHTING_PRESETS[1]>>
    /\ selectedManipulations' = <<MANIPULATION_PRESETS[1]>>
    /\ selectedRetouches' = <<RETOUCH_PRESETS[1]>>
    /\ selectedPeopleRetouches' = <<PEOPLE_RETOUCH_PRESETS[1]>>
    /\ UNCHANGED <<creativeError, upscaleError, useMagicComposite, suggestedPresetIds,
                   selectedMockups>>
    /\ UNCHANGED <<modeVars, imageVars, resultVars, promptVars, busyVars,
                   generationHistory, clock>>

\* the analysis call rejects (lines 491-495)
analyzeRejected(c) ==
    /\ c \in calls /\ c.fn = "analyzeForCompositeSuggestions"
    /\ error' = "AI analysis failed. Please check the console for details."
    /\ isAnalyzing' = FALSE
    /\ calls' = calls \ {c}
    /\ lastOp' = Op("analyzeRejected", NULL)
    /\ UNCHANGED <<creativeError, upscaleError, useMagicComposite, suggestedPresetIds>>
    /\ UNCHANGED <<modeVars, imageVars, resultVars, promptVars, selVars, busyVars,
                   generationHistory, clock>>

(***************************************************************************)
(* The inputs of the effect: image uploads, the mode switch and the        *)
(* magic-composite toggle.                                                 *)
(***************************************************************************)
\* ImageUploader's onImageChange={setProductImage} (line 878); an uploaded
\* image is a new object, so the dependency changes even when the same file
\* is uploaded again
setProductImage(image) ==
    /\ productImage' = image
    /\ runAnalysis(EffectFires(image # NULL \/ productImage # NULL,
                               appMode, image, referenceImage, useMagicComposite),
                   image, referenceImage)
    /\ lastOp' = Op("setProductImage", image)
    /\ UNCHANGED <<referenceImage, illustrationImage, personImage, useMagicComposite>>
    /\ UNCHANGED <<modeVars, resultVars, promptVars, selVars, errorVars, busyVars,
                   generationHistory, clock>>

\* onImageChange={setReferenceImage} (line 879)
setReferenceImage(image) ==
    /\ referenceImage' = image
    /\ runAnalysis(EffectFires(image # NULL \/ referenceImage # NULL,
                               appMode, productImage, image, useMagicComposite),
                   productImage, image)
    /\ lastOp' = Op("setReferenceImage", image)
    /\ UNCHANGED <<productImage, illustrationImage, personImage, useMagicComposite>>
    /\ UNCHANGED <<modeVars, resultVars, promptVars, selVars, errorVars, busyVars,
                   generationHistory, clock>>

\* the buttons of ModeSwitcher (lines 816, 822)
setAppMode(mode) ==
    /\ appMode' = mode
    /\ runAnalysis(EffectFires(mode # appMode, mode, productImage, referenceImage,
                               useMagicComposite), productImage, referenceImage)
    /\ lastOp' = Op("setAppMode", mode)
    /\ UNCHANGED <<creativeMode, retouchSubMode, isOnline, useMagicComposite>>
    /\ UNCHANGED <<imageVars, resultVars, promptVars, selVars, errorVars, busyVars,
                   generationHistory, clock>>

\* the handler without the reset of lines 530-537
handleMagicCompositeToggle_NoReset(enabled) ==
    /\ useMagicComposite' = enabled
    /\ UNCHANGED multiSelVars
    /\ IF ~enabled
       THEN UNCHANGED <<suggestedPresetIds, isAnalyzing, calls>>
       ELSE runAnalysis(EffectFires(~useMagicComposite, appMode, productImage,
                                    referenceImage, enabled),
                        productImage, referenceImage)
    /\ lastOp' = Op("handleMagicCompositeToggle", enabled)
    /\ UNCHANGED <<selectedMockups, modeVars, imageVars, resultVars, promptVars,
                   errorVars, busyVars, generationHistory, clock>>

\* lines 528-538
handleMagicCompositeToggle(enabled) ==
    /\ useMagicComposite' = enabled
    /\ IF ~enabled
       THEN /\ selectedCameras' = <<CAMERA_PRESETS[1]>>
            /\ selectedLightings' = <<LIGHTING_PRESETS[1]>>
            /\ selectedManipulations' = <<MANIPULATION_PRESETS[1]>>
            /\ selectedRetouches' = <<RETOUCH_PRESETS[1]>>
            /\ selectedPeopleRetouches' = <<PEOPLE_RETOUCH_PRESETS[1]>>
            /\ suggestedPresetIds' = EmptyMap
            /\ UNCHANGED <<isAnalyzing, calls>>
       ELSE /\ UNCHANGED multiSelVars
            /\ runAnalysis(EffectFires(~useMagicComposite, appMode, productImage,
                                       referenceImage, enabled),
                           productImage, referenceImage)
    /\ lastOp' = Op("handleMagicCompositeToggle", enabled)
    /\ UNCHANGED <<selectedMockups, modeVars, imageVars, resultVars, promptVars,
                   errorVars, busyVars, generationHistory, clock>>

\* the button of MagicCompositeToggle: onToggle(!isEnabled)
MagicCompositeToggle == handleMagicCompositeToggle(~useMagicComposite)

(***************************************************************************)
(* The generation history (lines 429, 554-555, 632-633, 690-691, 717-718,  *)
(* 798-799) and the HistoryItem of each pipeline.  new Date() reads the    *)
(* clock, which advances with every item made; an id is the time read and  *)
(* the suffix appended to it.                                              *)
(***************************************************************************)
HistoryCapacity == 12

HistoryItem(id, source, generated, prompt, mode, creativeSubMode) ==
    [id |-> id, source |-> source, generated |-> generated, prompt |-> prompt,
     mode |-> mode, creativeSubMode |-> creativeSubMode]

\* setGenerationHistory(prev => [newHistoryItem, ...prev].slice(0, 12))
AppendHistory_NoSlice(item, prev) == <<item>> \o prev

AppendHistory_ReplacesFront(item, prev) ==
    IF Len(prev) = 0 THEN <<item>> ELSE <<item>> \o Tail(prev)

AppendHistory(item, prev) == PrependSlice(item, prev, HistoryCapacity)

\* the label without the upper-casing of the target
UpscaledTo_LowerCase(target) == "Upscaled to " \o target

\* `Upscaled to ${target.toUpperCase()}`
UpscaledTo(target) == IF target = "hd" THEN "Upscaled to HD" ELSE "Upscaled to 4K"

DesignKitItem(now, source, result, prompt) ==
    HistoryItem(<<now, "">>, source, result, prompt, "design-kit", NULL)

\* the item of an illustration without its sub-mode
IllustrationItem_NoSubMode(now, source, result, prompt) ==
    HistoryItem(<<now, "">>, source, result, prompt, "creative-studio", NULL)

IllustrationItem(now, source, result, prompt) ==
    HistoryItem(<<now, "">>, source, result, prompt, "creative-studio", "illustrate")

SmartRetouchItem(now, source, result) ==
    HistoryItem(<<now, "">>, source, result, "Smart Studio Retouch",
                "creative-studio", "retouch")

EnvironmentItem(now, source, result, environment) ==
    HistoryItem(<<now, "">>, source, result, "Environment: " \o environment,
                "creative-studio", "retouch")

\* lines 790 and 798, on the values the closure of handleUpscale captured
UpscaleItem(now, mode, sub, source, result, prompt, target) ==
    HistoryItem(<<now, "-upscaled-" \o target>>, source, result,
                IF mode = "design-kit" THEN prompt ELSE UpscaledTo(target),
                mode, IF mode = "creative-studio" THEN sub ELSE NULL)

(***************************************************************************)
(* The outcomes of an external call that returns an image.                 *)
(***************************************************************************)
Fulfilled(result) == [kind |-> "result", value |-> result]
Empty == [kind |-> "empty", value |-> NULL]
Rejected(e) == [kind |-> "throw", value |-> e]

Outcomes(results, failures) ==
    {Fulfilled(r) : r \in results} \cup {Empty} \cup {Rejected(e) : e \in failures}

(***************************************************************************)
(* Composite generation (lines 540-565).                                   *)
(***************************************************************************)
handleDesignKitGeneration ==
    IF ~isOnline \/ productImage = NULL
    THEN /\ error' = (IF isOnline THEN "Please upload a product image first."
                      ELSE "You are offline. Please check your internet connection.")
         /\ lastOp' = Op("handleDesignKitGeneration", "precondition")
         /\ UNCHANGED <<creativeError, upscaleError, isLoading, generatedImage, calls>>
         /\ UNCHANGED <<isGeneratingDKPrompt, isGeneratingCreative, isGeneratingIllustration,
                        isVectorizing, isGeneratingPrompt, isGeneratingRetouchPrompts,
                        isUpscaling, generationStatusText>>
         /\ UNCHANGED <<illustrationResultImage, retouchResultImage>>
         /\ UNCHANGED <<modeVars, imageVars, promptVars, selVars, analysisVars,
                        generationHistory, clock>>
    ELSE /\ CanIssue
         /\ isLoading' = TRUE
         /\ error' = NULL
         /\ upscaleError' = NULL
         /\ generatedImage' = NULL
         /\ calls' = calls \cup
                {NewCall("generateImage", productImage, customPrompt, NULL, NULL, NULL)}
         /\ lastOp' = Op("handleDesignKitGeneration", "run")
         /\ UNCHANGED <<creativeError>>
         /\ UNCHANGED <<isGeneratingDKPrompt, isGeneratingCreative, isGeneratingIllustration,
                        isVectorizing, isGeneratingPrompt, isGeneratingRetouchPrompts,
                        isUpscaling, generationStatusText>>
         /\ UNCHANGED <<illustrationResultImage, retouchResultImage>>
         /\ UNCHANGED <<modeVars, imageVars, promptVars, selVars, analysisVars,
                        generationHistory, clock>>

\* the rest of the handler with the response of an overtaken call discarded:
\* a result is stored only while the result field is still cleared
generateImageSettled_StaleDiscarded(c, outcome) ==
    /\ c \in calls /\ c.fn = "generateImage"
    /\ CASE outcome.kind = "result" ->
              /\ clock < MaxAppends
              /\ generatedImage' = (IF generatedImage = NULL THEN outcome.value
                                    ELSE generatedImage)
              /\ generationHistory' =
                     AppendHistory(DesignKitItem(clock + 1, c.source, outcome.value, c.prompt),
                                   generationHistory)
              /\ clock' = clock + 1
              /\ UNCHANGED error
         [] outcome.kind = "empty" ->
              /\ error' = "The AI could not generate an image. Please try again."
              /\ UNCHANGED <<generatedImage, generationHistory, clock>>
         [] outcome.kind = "throw" ->
              /\ error' = MessageOf(outcome.value, "An unknown error occurred.")
              /\ UNCHANGED <<generatedImage, generationHistory, clock>>
    /\ isLoading' = FALSE
    /\ calls' = calls \ {c}
    /\ lastOp' = Op("generateImageSettled", outcome)
    /\ UNCHANGED <<creativeError, upscaleError>>
    /\ UNCHANGED <<isGeneratingDKPrompt, isGeneratingCreative, isGeneratingIllustration,
                   isVectorizing, isGeneratingPrompt, isGeneratingRetouchPrompts,
                   isUpscaling, generationStatusText>>
    /\ UNCHANGED <<illustrationResultImage, retouchResultImage>>
    /\ UNCHANGED <<modeVars, imageVars, promptVars, selVars, analysisVars>>

\* the rest of handleDesignKitGeneration after the await (lines 552-564)
generateImageSettled(c, outcome) ==
    /\ c \in calls /\ c.fn = "generateImage"
    /\ CASE outcome.kind = "result" ->
              /\ clock < MaxAppends
              /\ generatedImage' = outcome.value
              /\ generationHistory' =
                     AppendHistory(DesignKitItem(clock + 1, c.source, outcome.value, c.prompt),
                                   generationHistory)
              /\ clock' = clock + 1
              /\ UNCHANGED error
         [] outcome.kind = "empty" ->
              /\ error' = "The AI could not generate an image. Please try again."
              /\ UNCHANGED <<generatedImage, generationHistory, clock>>
         [] outcome.kind = "throw" ->
              /\ error' = MessageOf(outcome.value, "An unknown error occurred.")
              /\ UNCHANGED <<generatedImage, generationHistory, clock>>
    /\ isLoading' = FALSE
    /\ calls' = calls \ {c}
    /\ lastOp' = Op("generateImageSettled", outcome)
    /\ UNCHANGED <<creativeError, upscaleError>>
    /\ UNCHANGED <<isGeneratingDKPrompt, isGeneratingCreative, isGeneratingIllustration,
                   isVectorizing, isGeneratingPrompt, isGeneratingRetouchPrompts,
                   isUpscaling, generationStatusText>>
    /\ UNCHANGED <<illustrationResultImage, retouchResultImage>>
    /\ UNCHANGED <<modeVars, imageVars, promptVars, selVars, analysisVars>>

(***************************************************************************)
(* Illustration (lines 617-644).                                           *)
(***************************************************************************)
handleGenerateIllustration ==
    IF ~isOnline \/ illustrationImage = NULL
    THEN /\ creativeError' = (IF ~isOnline THEN "You are offline."
                              ELSE "Please upload an image to illustrate.")
         /\ lastOp' = Op("handleGenerateIllustration", "precondition")
         /\ UNCHANGED <<error, upscaleError, generationHistory, calls, clock, modeVars,
                       imageVars, resultVars, promptVars, selVars, analysisVars,
                       busyVars>>
    ELSE /\ CanIssue
         /\ isGeneratingIllustration' = TRUE
         /\ creativeError' = NULL
         /\ illustrationResultImage' = NULL
         /\ generationStatusText' = "Sketching your vision..."
         /\ calls' = calls \cup {NewCall("generateIllustration", illustrationImage,
                                         illustrationCustomPrompt, NULL, NULL, NULL)}
         /\ lastOp' = Op("handleGenerateIllustration", "run")
         /\ UNCHANGED <<generatedImage, retouchResultImage, error, upscaleError,
                       isLoading, isGeneratingDKPrompt, isGeneratingCreative,
                       isVectorizing, isGeneratingPrompt, isGeneratingRetouchPrompts,
                       isUpscaling, generationHistory, clock, modeVars, imageVars,
                       promptVars, selVars, analysisVars>>

\* the rest of handleGenerateIllustration after the await (lines 630-643)
generateIllustrationSettled(c, outcome) ==
    /\ c \in calls /\ c.fn = "generateIllustration"
    /\ CASE outcome.kind = "result" ->
              /\ illustrationResultImage' = outcome.value
              /\ clock < MaxAppends
              /\ generationHistory' = AppendHistory(IllustrationItem(clock + 1, c.source, outcome.value, c.prompt),
                                     generationHistory)
              /\ clock' = clock + 1
              /\ UNCHANGED creativeError
         [] outcome.kind = "empty" ->
              /\ creativeError' = "The AI could not generate an illustration. Please try a different style or image."
              /\ UNCHANGED <<illustrationResultImage, generationHistory, clock>>
         [] outcome.kind = "throw" ->
              /\ creativeError' = MessageOf(outcome.value, "An unknown error occurred during illustration.")
              /\ UNCHANGED <<illustrationResultImage, generationHistory, clock>>
    /\ isGeneratingIllustration' = FALSE
    /\ generationStatusText' = ""
    /\ calls' = calls \ {c}
    /\ lastOp' = Op("generateIllustrationSettled", outcome)
    /\ UNCHANGED <<generatedImage, retouchResultImage, error, upscaleError, isLoading,
                  isGeneratingDKPrompt, isGeneratingCreative, isVectorizing,
                  isGeneratingPrompt, isGeneratingRetouchPrompts, isUpscaling,
                  modeVars, imageVars, promptVars, selVars, analysisVars>>

(***************************************************************************)
(* Portrait retouch (lines 677-702).                                       *)
(***************************************************************************)
handleSmartRetouch ==
    IF ~isOnline \/ personImage = NULL
    THEN /\ creativeError' = (IF ~isOnline THEN "You are offline."
                              ELSE "Please upload a portrait to retouch.")
         /\ lastOp' = Op("handleSmartRetouch", "precondition")
         /\ UNCHANGED <<error, upscaleError, generationHistory, calls, clock, modeVars,
                       imageVars, resultVars, promptVars, selVars, analysisVars,
                       busyVars>>
    ELSE /\ CanIssue
         /\ isGeneratingCreative' = TRUE
         /\ generationStatusText' = "Performing high-end face retouch..."
         /\ creativeError' = NULL
         /\ retouchResultImage' = NULL
         /\ calls' = calls \cup {NewCall("performSmartRetouch", personImage, NULL, NULL, NULL, NULL)}
         /\ lastOp' = Op("handleSmartRetouch", "run")
         /\ UNCHANGED <<generatedImage, illustrationResultImage, error, upscaleError,
                       isLoading, isGeneratingDKPrompt, isGeneratingIllustration,
                       isVectorizing, isGeneratingPrompt, isGeneratingRetouchPrompts,
                       isUpscaling, generationHistory, clock, modeVars, imageVars,
                       promptVars, selVars, analysisVars>>

\* the rest of the handler with a failed call issued again
performSmartRetouchSettled_Retries(c, outcome) ==
    /\ c \in calls /\ c.fn = "performSmartRetouch"
    /\ CASE outcome.kind = "result" ->
              /\ retouchResultImage' = outcome.value
              /\ clock < MaxAppends
              /\ generationHistory' = AppendHistory(SmartRetouchItem(clock + 1, c.source, outcome.value),
                                     generationHistory)
              /\ clock' = clock + 1
              /\ UNCHANGED creativeError
         [] outcome.kind = "empty" ->
              /\ creativeError' = "The AI could not retouch the image."
              /\ UNCHANGED <<retouchResultImage, generationHistory, clock>>
         [] outcome.kind = "throw" ->
              /\ creativeError' = MessageOf(outcome.value, "An unknown error occurred during retouching.")
              /\ UNCHANGED <<retouchResultImage, generationHistory, clock>>
    /\ isGeneratingCreative' = FALSE
    /\ generationStatusText' = ""
    /\ calls' = (IF outcome.kind = "throw" THEN calls ELSE calls \ {c})
    /\ lastOp' = Op("performSmartRetouchSettled", outcome)
    /\ UNCHANGED <<generatedImage, illustrationResultImage, error, upscaleError,
                  isLoading, isGeneratingDKPrompt, isGeneratingIllustration,
                  isVectorizing, isGeneratingPrompt, isGeneratingRetouchPrompts,
                  isUpscaling, modeVars, imageVars, promptVars, selVars, analysisVars>>

\* the rest of handleSmartRetouch after the await (lines 688-701)
performSmartRetouchSettled(c, outcome) ==
    /\ c \in calls /\ c.fn = "performSmartRetouch"
    /\ CASE outcome.kind = "result" ->
              /\ retouchResultImage' = outcome.value
              /\ clock < MaxAppends
              /\ generationHistory' = AppendHistory(SmartRetouchItem(clock + 1, c.source, outcome.value),
                                     generationHistory)
              /\ clock' = clock + 1
              /\ UNCHANGED creativeError
         [] outcome.kind = "empty" ->
              /\ creativeError' = "The AI could not retouch the image."
              /\ UNCHANGED <<retouchResultImage, generationHistory, clock>>
         [] outcome.kind = "throw" ->
              /\ creativeError' = MessageOf(outcome.value, "An unknown error occurred during retouching.")
              /\ UNCHANGED <<retouchResultImage, generationHistory, clock>>
    /\ isGeneratingCreative' = FALSE
    /\ generationStatusText' = ""
    /\ calls' = calls \ {c}
    /\ lastOp' = Op("performSmartRetouchSettled", outcome)
    /\ UNCHANGED <<generatedImage, illustrationResultImage, error, upscaleError,
                  isLoading, isGeneratingDKPrompt, isGeneratingIllustration,
                  isVectorizing, isGeneratingPrompt, isGeneratingRetouchPrompts,
                  isUpscaling, modeVars, imageVars, promptVars, selVars, analysisVars>>

(***************************************************************************)
(* Environment generation (lines 704-729).  selectedEnvironment keeps its  *)
(* initial value ENVIRONMENT_PRESETS[0] (line 422).                        *)
(***************************************************************************)
selectedEnvironment == ENVIRONMENT_PRESETS[1]

handleEnvironmentGeneration ==
    IF ~isOnline \/ personImage = NULL
    THEN /\ creativeError' = (IF ~isOnline THEN "You are offline." ELSE "Please upload a portrait.")
         /\ lastOp' = Op("handleEnvironmentGeneration", "precondition")
         /\ UNCHANGED <<error, upscaleError, generationHistory, calls, clock, modeVars,
                       imageVars, resultVars, promptVars, selVars, analysisVars,
                       busyVars>>
    ELSE /\ CanIssue
         /\ isGeneratingCreative' = TRUE
         /\ generationStatusText' = "Harmonizing light, color, and shadows..."
         /\ creativeError' = NULL
         /\ retouchResultImage' = NULL
         /\ calls' = calls \cup {NewCall("generateEnvironment", personImage, selectedEnvironment,
                                         NULL, NULL, NULL)}
         /\ lastOp' = Op("handleEnvironmentGeneration", "run")
         /\ UNCHANGED <<generatedImage, illustrationResultImage, error, upscaleError,
                       isLoading, isGeneratingDKPrompt, isGeneratingIllustration,
                       isVectorizing, isGeneratingPrompt, isGeneratingRetouchPrompts,
                       isUpscaling, generationHistory, clock, modeVars, imageVars,
                       promptVars, selVars, analysisVars>>

\* the rest of the handler recording a failed call in the history
generateEnvironmentSettled_RecordsFailure(c, outcome) ==
    /\ c \in calls /\ c.fn = "generateEnvironment"
    /\ CASE outcome.kind = "result" ->
              /\ retouchResultImage' = outcome.value
              /\ clock < MaxAppends
              /\ generationHistory' = AppendHistory(EnvironmentItem(clock + 1, c.source, outcome.value, c.prompt),
                                     generationHistory)
              /\ clock' = clock + 1
              /\ UNCHANGED creativeError
         [] outcome.kind = "empty" ->
              /\ creativeError' = "The AI could not generate the environment."
              /\ UNCHANGED <<retouchResultImage, generationHistory, clock>>
         [] outcome.kind = "throw" ->
              /\ creativeError' = MessageOf(outcome.value,
                                          "An unknown error occurred during environment generation.")
              /\ clock < MaxAppends
              /\ generationHistory' = AppendHistory(EnvironmentItem(clock + 1, c.source, NULL, c.prompt),
                                     generationHistory)
              /\ clock' = clock + 1
              /\ UNCHANGED retouchResultImage
    /\ isGeneratingCreative' = FALSE
    /\ generationStatusText' = ""
    /\ calls' = calls \ {c}
    /\ lastOp' = Op("generateEnvironmentSettled", outcome)
    /\ UNCHANGED <<generatedImage, illustrationResultImage, error, upscaleError,
                  isLoading, isGeneratingDKPrompt, isGeneratingIllustration,
                  isVectorizing, isGeneratingPrompt, isGeneratingRetouchPrompts,
                  isUpscaling, modeVars, imageVars, promptVars, selVars, analysisVars>>

\* the rest of handleEnvironmentGeneration after the await (lines 715-728)
generateEnvironmentSettled(c, outcome) ==
    /\ c \in calls /\ c.fn = "generateEnvironment"
    /\ CASE outcome.kind = "result" ->
              /\ retouchResultImage' = outcome.value
              /\ clock < MaxAppends
              /\ generationHistory' = AppendHistory(EnvironmentItem(clock + 1, c.source, outcome.value, c.prompt),
                                     generationHistory)
              /\ clock' = clock + 1
              /\ UNCHANGED creativeError
         [] outcome.kind = "empty" ->
              /\ creativeError' = "The AI could not generate the environment."
              /\ UNCHANGED <<retouchResultImage, generationHistory, clock>>
         [] outcome.kind = "throw" ->
              /\ creativeError' = MessageOf(outcome.value,
                                          "An unknown error occurred during environment generation.")
              /\ UNCHANGED <<retouchResultImage, generationHistory, clock>>
    /\ isGeneratingCreative' = FALSE
    /\ generationStatusText' = ""
    /\ calls' = calls \ {c}
    /\ lastOp' = Op("generateEnvironmentSettled", outcome)
    /\ UNCHANGED <<generatedImage, illustrationResultImage, error, upscaleError,
                  isLoading, isGeneratingDKPrompt, isGeneratingIllustration,
                  isVectorizing, isGeneratingPrompt, isGeneratingRetouchPrompts,
                  isUpscaling, modeVars, imageVars, promptVars, selVars, analysisVars>>

(***************************************************************************)
(* Upscaling (lines 774-810).  Without an image to upscale or its source   *)
(* the handler returns and changes nothing.                                *)
(***************************************************************************)
handleUpscale(target) ==
    LET imageToUpscale == IF appMode = "design-kit" THEN generatedImage
                          ELSE IF creativeMode = "retouch" THEN retouchResultImage
                          ELSE illustrationResultImage
        sourceImage == IF appMode = "design-kit" THEN productImage
                       ELSE IF creativeMode = "retouch" THEN personImage
                       ELSE illustrationImage
    IN
    IF imageToUpscale = NULL \/ sourceImage = NULL
    THEN /\ lastOp' = Op("handleUpscale", "precondition")
         /\ UNCHANGED <<generationHistory, calls, clock, modeVars, imageVars,
                       resultVars, promptVars, selVars, analysisVars, errorVars,
                       busyVars>>
    ELSE /\ CanIssue
         /\ isUpscaling' = target
         /\ upscaleError' = NULL
         /\ error' = NULL
         /\ creativeError' = NULL
         /\ generationStatusText' = "Upscaling with detail preservation..."
         /\ calls' = calls \cup {NewCall("upscaleImage", sourceImage, customPrompt, appMode,
                                         creativeMode, target)}
         /\ lastOp' = Op("handleUpscale", target)
         /\ UNCHANGED <<isLoading, isGeneratingDKPrompt, isGeneratingCreative,
                       isGeneratingIllustration, isVectorizing, isGeneratingPrompt,
                       isGeneratingRetouchPrompts, generationHistory, clock, modeVars,
                       imageVars, resultVars, promptVars, selVars, analysisVars>>

\* the rest of handleUpscale reading the mode and the sub-mode of the moment
\* the call settles
upscaleImageSettled_CurrentMode(c, outcome) ==
    /\ c \in calls /\ c.fn = "upscaleImage"
    /\ CASE outcome.kind = "result" ->
              /\ generatedImage' = (IF appMode = "design-kit" THEN outcome.value ELSE generatedImage)
              /\ retouchResultImage' = (IF appMode # "design-kit" /\ creativeMode = "retouch"
                                        THEN outcome.value ELSE retouchResultImage)
              /\ illustrationResultImage' = (IF appMode # "design-kit" /\ creativeMode # "retouch"
                                             THEN outcome.value ELSE illustrationResultImage)
              /\ clock < MaxAppends
              /\ generationHistory' = AppendHistory(UpscaleItem(clock + 1, appMode, creativeMode, c.source, outcome.value,
                                                  c.prompt, c.target),
                                     generationHistory)
              /\ clock' = clock + 1
              /\ UNCHANGED upscaleError
         [] outcome.kind = "empty" ->
              /\ upscaleError' = "The AI could not upscale the image."
              /\ UNCHANGED <<generatedImage, retouchResultImage, illustrationResultImage, generationHistory, clock>>
         [] outcome.kind = "throw" ->
              /\ upscaleError' = MessageOf(outcome.value, "An unknown error occurred during upscaling.")
              /\ UNCHANGED <<generatedImage, retouchResultImage, illustrationResultImage, generationHistory, clock>>
    /\ isUpscaling' = NotUpscaling
    /\ generationStatusText' = ""
    /\ calls' = calls \ {c}
    /\ lastOp' = Op("upscaleImageSettled", outcome)
    /\ UNCHANGED <<error, creativeError, isLoading, isGeneratingDKPrompt,
                  isGeneratingCreative, isGeneratingIllustration, isVectorizing,
                  isGeneratingPrompt, isGeneratingRetouchPrompts, modeVars, imageVars,
                  promptVars, selVars, analysisVars>>

\* the rest of handleUpscale after the await (lines 789-809), on the values its
\* closure captured
upscaleImageSettled(c, outcome) ==
    /\ c \in calls /\ c.fn = "upscaleImage"
    /\ CASE outcome.kind = "result" ->
              /\ generatedImage' = (IF c.mode = "design-kit" THEN outcome.value ELSE generatedImage)
              /\ retouchResultImage' = (IF c.mode # "design-kit" /\ c.sub = "retouch"
                                        THEN outcome.value ELSE retouchResultImage)
              /\ illustrationResultImage' = (IF c.mode # "design-kit" /\ c.sub # "retouch"
                                             THEN outcome.value ELSE illustrationResultImage)
              /\ clock < MaxAppends
              /\ generationHistory' = AppendHistory(UpscaleItem(clock + 1, c.mode, c.sub, c.source, outcome.value,
                                                  c.prompt, c.target),
                                     generationHistory)
              /\ clock' = clock + 1
              /\ UNCHANGED upscaleError
         [] outcome.kind = "empty" ->
              /\ upscaleError' = "The AI could not upscale the image."
              /\ UNCHANGED <<generatedImage, retouchResultImage, illustrationResultImage, generationHistory, clock>>
         [] outcome.kind = "throw" ->
              /\ upscaleError' = MessageOf(outcome.value, "An unknown error occurred during upscaling.")
              /\ UNCHANGED <<generatedImage, retouchResultImage, illustrationResultImage, generationHistory, clock>>
    /\ isUpscaling' = NotUpscaling
    /\ generationStatusText' = ""
    /\ calls' = calls \ {c}
    /\ lastOp' = Op("upscaleImageSettled", outcome)
    /\ UNCHANGED <<error, creativeError, isLoading, isGeneratingDKPrompt,
                  isGeneratingCreative, isGeneratingIllustration, isVectorizing,
                  isGeneratingPrompt, isGeneratingRetouchPrompts, modeVars, imageVars,
                  promptVars, selVars, analysisVars>>

(***************************************************************************)
(* Prompt suggestions (lines 567-588, 592-615, 731-743) and the SVG        *)
(* download (lines 646-675).  The suggestion lists, the modals and the     *)
(* downloaded file are not part of the state.                              *)
(***************************************************************************)
handleGenerateDKPrompt ==
    IF productImage = NULL
    THEN /\ error' = "Please upload a product image to generate prompt suggestions."
         /\ lastOp' = Op("handleGenerateDKPrompt", "precondition")
         /\ UNCHANGED <<creativeError, upscaleError, generationHistory, calls, clock,
                       modeVars, imageVars, resultVars, promptVars, selVars,
                       analysisVars, busyVars>>
    ELSE /\ CanIssue
         /\ isGeneratingDKPrompt' = TRUE
         /\ error' = NULL
         /\ calls' = calls \cup {NewCall("generateDesignKitPrompt", productImage, NULL, NULL, NULL, NULL)}
         /\ lastOp' = Op("handleGenerateDKPrompt", "run")
         /\ UNCHANGED <<creativeError, upscaleError, isLoading, isGeneratingCreative,
                       isGeneratingIllustration, isVectorizing, isGeneratingPrompt,
                       isGeneratingRetouchPrompts, isUpscaling, generationStatusText,
                       generationHistory, clock, modeVars, imageVars, resultVars,
                       promptVars, selVars, analysisVars>>

generateDesignKitPromptSettled(c, outcome) ==
    /\ c \in calls /\ c.fn = "generateDesignKitPrompt"
    /\ CASE outcome.kind = "result" ->
              /\ UNCHANGED error
         [] outcome.kind = "empty" ->
              /\ error' = "The AI could not generate any prompt suggestions."
         [] outcome.kind = "throw" ->
              /\ error' = MessageOf(outcome.value, "An unknown error occurred during prompt generation.")
    /\ isGeneratingDKPrompt' = FALSE
    /\ calls' = calls \ {c}
    /\ lastOp' = Op("generateDesignKitPromptSettled", outcome)
    /\ UNCHANGED <<creativeError, upscaleError, isLoading, isGeneratingCreative,
                  isGeneratingIllustration, isVectorizing, isGeneratingPrompt,
                  isGeneratingRetouchPrompts, isUpscaling, generationStatusText,
                  generationHistory, clock, modeVars, imageVars, resultVars,
                  promptVars, selVars, analysisVars>>

handleGenerateCreativePrompts ==
    LET baseImage == IF creativeMode = "illustrate" THEN illustrationImage ELSE NULL
    IN
    IF baseImage = NULL
    THEN /\ creativeError' = "Please upload a base image first."
         /\ lastOp' = Op("handleGenerateCreativePrompts", "precondition")
         /\ UNCHANGED <<error, upscaleError, generationHistory, calls, clock, modeVars,
                       imageVars, resultVars, promptVars, selVars, analysisVars,
                       busyVars>>
    ELSE /\ CanIssue
         /\ isGeneratingPrompt' = TRUE
         /\ creativeError' = NULL
         /\ calls' = calls \cup {NewCall("generateIllustrationPrompts", baseImage, NULL, NULL, NULL, NULL)}
         /\ lastOp' = Op("handleGenerateCreativePrompts", "run")
         /\ UNCHANGED <<error, upscaleError, isLoading, isGeneratingDKPrompt,
                       isGeneratingCreative, isGeneratingIllustration, isVectorizing,
                       isGeneratingRetouchPrompts, isUpscaling, generationStatusText,
                       generationHistory, clock, modeVars, imageVars, resultVars,
                       promptVars, selVars, analysisVars>>

generateIllustrationPromptsSettled(c, outcome) ==
    /\ c \in calls /\ c.fn = "generateIllustrationPrompts"
    /\ CASE outcome.kind = "result" ->
              /\ UNCHANGED creativeError
         [] outcome.kind = "empty" ->
              /\ creativeError' = "The AI could not generate any suggestions."
         [] outcome.kind = "throw" ->
              /\ creativeError' = MessageOf(outcome.value, "An unknown error occurred during prompt generation.")
    /\ isGeneratingPrompt' = FALSE
    /\ calls' = calls \ {c}
    /\ lastOp' = Op("generateIllustrationPromptsSettled", outcome)
    /\ UNCHANGED <<error, upscaleError, isLoading, isGeneratingDKPrompt,
                  isGeneratingCreative, isGeneratingIllustration, isVectorizing,
                  isGeneratingRetouchPrompts, isUpscaling, generationStatusText,
                  generationHistory, clock, modeVars, imageVars, resultVars,
                  promptVars, selVars, analysisVars>>

\* the handler clearing every error slot at its start
handleGenerateRetouchPrompts_ClearsAll ==
    /\ CanIssue
    /\ isGeneratingRetouchPrompts' = TRUE
    /\ creativeError' = NULL
    /\ error' = NULL
    /\ upscaleError' = NULL
    /\ calls' = calls \cup {NewCall("generateRetouchPrompts", NULL, NULL, NULL, NULL, NULL)}
    /\ lastOp' = Op("handleGenerateRetouchPrompts", "run")
    /\ UNCHANGED <<isLoading, isGeneratingDKPrompt,
                  isGeneratingCreative, isGeneratingIllustration, isVectorizing,
                  isGeneratingPrompt, isUpscaling, generationStatusText,
                  generationHistory, clock, modeVars, imageVars, resultVars,
                  promptVars, selVars, analysisVars>>

handleGenerateRetouchPrompts ==
    /\ CanIssue
    /\ isGeneratingRetouchPrompts' = TRUE
    /\ creativeError' = NULL
    /\ calls' = calls \cup {NewCall("generateRetouchPrompts", NULL, NULL, NULL, NULL, NULL)}
    /\ lastOp' = Op("handleGenerateRetouchPrompts", "run")
    /\ UNCHANGED <<error, upscaleError, isLoading, isGeneratingDKPrompt,
                  isGeneratingCreative, isGeneratingIllustration, isVectorizing,
                  isGeneratingPrompt, isUpscaling, generationStatusText,
                  generationHistory, clock, modeVars, imageVars, resultVars,
                  promptVars, selVars, analysisVars>>

\* whatever the call returns is stored (line 736)
generateRetouchPromptsSettled(c, outcome) ==
    /\ c \in calls /\ c.fn = "generateRetouchPrompts"
    /\ CASE outcome.kind = "result" ->
              /\ UNCHANGED creativeError
         [] outcome.kind = "empty" ->
              /\ UNCHANGED creativeError
         [] outcome.kind = "throw" ->
              /\ creativeError' = MessageOf(outcome.value, "An unknown error occurred during prompt generation.")
    /\ isGeneratingRetouchPrompts' = FALSE
    /\ calls' = calls \ {c}
    /\ lastOp' = Op("generateRetouchPromptsSettled", outcome)
    /\ UNCHANGED <<error, upscaleError, isLoading, isGeneratingDKPrompt,
                  isGeneratingCreative, isGeneratingIllustration, isVectorizing,
                  isGeneratingPrompt, isUpscaling, generationStatusText,
                  generationHistory, clock, modeVars, imageVars, resultVars,
                  promptVars, selVars, analysisVars>>

\* the handler without the return of line 647
handleDownloadVector_NoGuard ==
    /\ CanIssue
    /\ isVectorizing' = TRUE
    /\ creativeError' = NULL
    /\ generationStatusText' = "Vectorizing image..."
    /\ calls' = calls \cup {NewCall("vectorizeImage", illustrationResultImage, NULL, NULL, NULL, NULL)}
    /\ lastOp' = Op("handleDownloadVector", "run")
    /\ UNCHANGED <<error, upscaleError, isLoading, isGeneratingDKPrompt,
                  isGeneratingCreative, isGeneratingIllustration,
                  isGeneratingPrompt, isGeneratingRetouchPrompts, isUpscaling,
                  generationHistory, clock, modeVars, imageVars, resultVars,
                  promptVars, selVars, analysisVars>>

handleDownloadVector ==
    IF illustrationResultImage = NULL
    THEN /\ lastOp' = Op("handleDownloadVector", "precondition")
         /\ UNCHANGED <<generationHistory, calls, clock, modeVars, imageVars,
                       resultVars, promptVars, selVars, analysisVars, errorVars,
                       busyVars>>
    ELSE /\ CanIssue
         /\ isVectorizing' = TRUE
         /\ creativeError' = NULL
         /\ generationStatusText' = "Vectorizing image..."
         /\ calls' = calls \cup {NewCall("vectorizeImage", illustrationResultImage, NULL, NULL, NULL, NULL)}
         /\ lastOp' = Op("handleDownloadVector", "run")
         /\ UNCHANGED <<error, upscaleError, isLoading, isGeneratingDKPrompt,
                       isGeneratingCreative, isGeneratingIllustration,
                       isGeneratingPrompt, isGeneratingRetouchPrompts, isUpscaling,
                       generationHistory, clock, modeVars, imageVars, resultVars,
                       promptVars, selVars, analysisVars>>

\* the rest of the handler without setGenerationStatusText('') of line 673
vectorizeImageSettled_StatusKept(c, outcome) ==
    /\ c \in calls /\ c.fn = "vectorizeImage"
    /\ CASE outcome.kind = "result" ->
              /\ UNCHANGED creativeError
         [] outcome.kind = "empty" ->
              /\ creativeError' = "The AI could not convert the image to SVG."
         [] outcome.kind = "throw" ->
              /\ creativeError' = MessageOf(outcome.value, "An unknown error occurred during vectorization.")
    /\ isVectorizing' = FALSE
    /\ UNCHANGED generationStatusText
    /\ calls' = calls \ {c}
    /\ lastOp' = Op("vectorizeImageSettled", outcome)
    /\ UNCHANGED <<error, upscaleError, isLoading, isGeneratingDKPrompt,
                  isGeneratingCreative, isGeneratingIllustration, isGeneratingPrompt,
                  isGeneratingRetouchPrompts, isUpscaling, generationHistory, clock,
                  modeVars, imageVars, resultVars, promptVars, selVars, analysisVars>>

vectorizeImageSettled(c, outcome) ==
    /\ c \in calls /\ c.fn = "vectorizeImage"
    /\ CASE outcome.kind = "result" ->
              /\ UNCHANGED creativeError
         [] outcome.kind = "empty" ->
              /\ creativeError' = "The AI could not convert the image to SVG."
         [] outcome.kind = "throw" ->
              /\ creativeError' = MessageOf(outcome.value, "An unknown error occurred during vectorization.")
    /\ isVectorizing' = FALSE
    /\ generationStatusText' = ""
    /\ calls' = calls \ {c}
    /\ lastOp' = Op("vectorizeImageSettled", outcome)
    /\ UNCHANGED <<error, upscaleError, isLoading, isGeneratingDKPrompt,
                  isGeneratingCreative, isGeneratingIllustration, isGeneratingPrompt,
                  isGeneratingRetouchPrompts, isUpscaling, generationHistory, clock,
                  modeVars, imageVars, resultVars, promptVars, selVars, analysisVars>>

(***************************************************************************)
(* The other inputs: uploads and prompt fields of the creative studio, the *)
(* sub-mode switches and the browser's online and offline events.          *)
(***************************************************************************)
\* onImageChange={setIllustrationImage} (line 932)
setIllustrationImage(image) ==
    /\ illustrationImage' = image
    /\ lastOp' = Op("setIllustrationImage", image)
    /\ UNCHANGED <<productImage, referenceImage, personImage, generationHistory, calls,
                  clock, modeVars, resultVars, promptVars, selVars, analysisVars,
                  errorVars, busyVars>>

\* onImageChange={setPersonImage} (line 1037)
setPersonImage(image) ==
    /\ personImage' = image
    /\ lastOp' = Op("setPersonImage", image)
    /\ UNCHANGED <<productImage, referenceImage, illustrationImage, generationHistory,
                  calls, clock, modeVars, resultVars, promptVars, selVars,
                  analysisVars, errorVars, busyVars>>

\* the prompt field of the design kit (line 884)
setCustomPrompt(value) ==
    /\ customPrompt' = value
    /\ lastOp' = Op("setCustomPrompt", value)
    /\ UNCHANGED <<illustrationCustomPrompt, artistCommand, generationHistory, calls,
                  clock, modeVars, imageVars, resultVars, selVars, analysisVars,
                  errorVars, busyVars>>

\* the prompt field of the illustrator (line 974)
setIllustrationCustomPrompt(value) ==
    /\ illustrationCustomPrompt' = value
    /\ lastOp' = Op("setIllustrationCustomPrompt", value)
    /\ UNCHANGED <<customPrompt, artistCommand, generationHistory, calls, clock,
                  modeVars, imageVars, resultVars, selVars, analysisVars, errorVars,
                  busyVars>>

\* retouchOptions.artistCommand (lines 1056, 1147)
setArtistCommand(value) ==
    /\ artistCommand' = value
    /\ lastOp' = Op("setArtistCommand", value)
    /\ UNCHANGED <<customPrompt, illustrationCustomPrompt, generationHistory, calls,
                  clock, modeVars, imageVars, resultVars, selVars, analysisVars,
                  errorVars, busyVars>>

\* lines 926-927
\* the sub-mode switch that also clears the creative error
setCreativeMode_ClearsError(mode) ==
    /\ creativeMode' = mode
    /\ creativeError' = NULL
    /\ lastOp' = Op("setCreativeMode", mode)
    /\ UNCHANGED <<appMode, retouchSubMode, isOnline, generationHistory, calls, clock,
                  imageVars, resultVars, promptVars, selVars, analysisVars, error,
                  upscaleError, busyVars>>

setCreativeMode(mode) ==
    /\ creativeMode' = mode
    /\ lastOp' = Op("setCreativeMode", mode)
    /\ UNCHANGED <<appMode, retouchSubMode, isOnline, generationHistory, calls, clock,
                  imageVars, resultVars, promptVars, selVars, analysisVars, errorVars,
                  busyVars>>

\* lines 1042-1043
setRetouchSubMode(mode) ==
    /\ retouchSubMode' = mode
    /\ lastOp' = Op("setRetouchSubMode", mode)
    /\ UNCHANGED <<appMode, creativeMode, isOnline, generationHistory, calls, clock,
                  imageVars, resultVars, promptVars, selVars, analysisVars, errorVars,
                  busyVars>>

\* lines 437-438
handleOnline ==
    /\ isOnline' = TRUE
    /\ lastOp' = Op("handleOnline", NULL)
    /\ UNCHANGED <<appMode, creativeMode, retouchSubMode, generationHistory, calls,
                  clock, imageVars, resultVars, promptVars, selVars, analysisVars,
                  errorVars, busyVars>>

handleOffline ==
    /\ isOnline' = FALSE
    /\ lastOp' = Op("handleOffline", NULL)
    /\ UNCHANGED <<appMode, creativeMode, retouchSubMode, generationHistory, calls,
                  clock, imageVars, resultVars, promptVars, selVars, analysisVars,
                  errorVars, busyVars>>


(***************************************************************************)
(* Selecting a history item (lines 746-772).  The item is one the          *)
(* HistoryPanel shows: generationHistory[i].                               *)
(***************************************************************************)
\* item.creativeSubMode || 'illustrate'
SubModeOrIllustrate(item) ==
    IF item.creativeSubMode = NULL THEN "illustrate" ELSE item.creativeSubMode

\* the branch of lines 757-771 that the item takes
IsDesignKit(item) == item.mode = "design-kit"
IsIllustrate(item) == item.mode = "creative-studio" /\ item.creativeSubMode = "illustrate"
IsRetouch(item) == item.mode = "creative-studio" /\ item.creativeSubMode # "illustrate"

\* setError(null), setCreativeError(null), setUpscaleError(null) (lines 748-750)
ClearedSlot_Kept(slot) == slot

ClearedSlot(slot) == NULL

\* a cell that only the branch taken writes (lines 758, 760, 764, 765, 768)
Restored_Dropped(taken, value, current) == current

\* the cell written by every branch
Restored_Always(taken, value, current) == value

Restored(taken, value, current) == IF taken THEN value ELSE current

\* a result cell: reset (lines 753-755), then written by the branch taken
\* (lines 759, 766, 769)
RestoredResult(taken, value) == IF taken THEN value ELSE NULL

\* whether setProductImage(item.source) changes the effect's dependency
\* productImage: images are compared as objects, and an image equal to
\* item.source is that object or a later upload of the same file
ProductReplaced(item) ==
    IF ~IsDesignKit(item) THEN {FALSE}
    ELSE IF item.source = productImage THEN BOOLEAN
    ELSE {TRUE}

handleHistorySelect(i) ==
    LET item == generationHistory[i]
        product == Restored(IsDesignKit(item), item.source, productImage)
    IN  /\ i \in 1..Len(generationHistory)
        /\ appMode' = item.mode
        /\ error' = ClearedSlot(error)
        /\ creativeError' = ClearedSlot(creativeError)
        /\ upscaleError' = ClearedSlot(upscaleError)
        /\ generatedImage' = RestoredResult(IsDesignKit(item), item.generated)
        /\ retouchResultImage' = RestoredResult(IsRetouch(item), item.generated)
        /\ illustrationResultImage' = RestoredResult(IsIllustrate(item), item.generated)
        /\ productImage' = product
        /\ customPrompt' = Restored(IsDesignKit(item), item.prompt, customPrompt)
        /\ creativeMode' = Restored(item.mode = "creative-studio",
                                    SubModeOrIllustrate(item), creativeMode)
        /\ illustrationImage' = Restored(IsIllustrate(item), item.source, illustrationImage)
        /\ illustrationCustomPrompt' =
               Restored(IsIllustrate(item), item.prompt, illustrationCustomPrompt)
        /\ personImage' = Restored(IsRetouch(item), item.source, personImage)
        /\ \E replaced \in ProductReplaced(item) :
               runAnalysis(EffectFires(item.mode # appMode \/ replaced, item.mode, product,
                                       referenceImage, useMagicComposite),
                           product, referenceImage)
        /\ lastOp' = Op("handleHistorySelect",
                        [item |-> item, before |-> <<error, creativeError, upscaleError>>])
        /\ UNCHANGED <<retouchSubMode, isOnline, referenceImage, artistCommand,
                       useMagicComposite, selVars, busyVars, generationHistory, clock>>

(***************************************************************************)
(* The state after construction (the useState initialisers, lines          *)
(* 353-433).                                                               *)
(***************************************************************************)
InitSelections ==
    /\ selectedCameras = <<CAMERA_PRESETS[1]>>
    /\ selectedLightings = <<LIGHTING_PRESETS[1]>>
    /\ selectedMockups = <<MOCKUP_PRESETS[1]>>
    /\ selectedManipulations = <<MANIPULATION_PRESETS[1]>>
    /\ selectedPeopleRetouches = <<PEOPLE_RETOUCH_PRESETS[1]>>
    /\ selectedRetouches = <<RETOUCH_PRESETS[1]>>

InitRest ==
    /\ appMode = "design-kit"
    /\ creativeMode = "illustrate"
    /\ retouchSubMode = "smart"
    /\ isOnline \in BOOLEAN
    /\ productImage = NULL /\ referenceImage = NULL
    /\ illustrationImage = NULL /\ personImage = NULL
    /\ generatedImage = NULL /\ illustrationResultImage = NULL
    /\ retouchResultImage = NULL
    /\ customPrompt = "" /\ illustrationCustomPrompt = "" /\ artistCommand = ""
    /\ useMagicComposite = TRUE
    /\ isAnalyzing = FALSE
    /\ suggestedPresetIds = EmptyMap
    /\ error = NULL /\ creativeError = NULL /\ upscaleError = NULL
    /\ isLoading = FALSE /\ isGeneratingDKPrompt = FALSE
    /\ isGeneratingCreative = FALSE /\ isGeneratingIllustration = FALSE
    /\ isVectorizing = FALSE /\ isGeneratingPrompt = FALSE
    /\ isGeneratingRetouchPrompts = FALSE
    /\ isUpscaling = NotUpscaling
    /\ generationStatusText = ""
    /\ generationHistory = <<>>
    /\ calls = {}
    /\ clock = 0
    /\ lastOp = Op("mount", NULL)

Init == InitSelections /\ InitRest

(***************************************************************************)
(* The whole program: every handler on every input, every call in flight   *)
(* settling with every outcome.                                            *)
(***************************************************************************)
ImageOutcomes == Outcomes(Results, Failures)

\* every map from at most MaxSuggestedCats categories to lists of at most
\* MaxSuggestedIds ids, each a preset of the category or an id that no
\* preset has
AllSuggestionMaps ==
    LET Lists(key) == UNION {[1..n -> Range(PresetsOf(key)) \cup {"unlisted"}] :
                                n \in 0..MaxSuggestedIds}
        Over(K) == {{<<k, f[k]>> : k \in K} :
                       f \in {g \in [K -> UNION {Lists(k) : k \in K}] :
                                 \A k \in K : g[k] \in Lists(k)}}
    IN  UNION {Over(K) : K \in {J \in SUBSET SuggestionKeys :
                                   Cardinality(J) <= MaxSuggestedCats}}

Upload ==
    \/ \E image \in Images \cup {NULL} : setProductImage(image)
    \/ \E image \in Images \cup {NULL} : setReferenceImage(image)
    \/ \E image \in Images \cup {NULL} : setIllustrationImage(image)
    \/ \E image \in Images \cup {NULL} : setPersonImage(image)

Edit ==
    \/ \E value \in Prompts : setCustomPrompt(value)
    \/ \E value \in Prompts : setIllustrationCustomPrompt(value)
    \/ \E value \in Prompts : setArtistCommand(value)

SwitchMode ==
    \/ \E mode \in AppMode : setAppMode(mode)
    \/ \E mode \in CreativeMode : setCreativeMode(mode)
    \/ \E mode \in RetouchSubMode : setRetouchSubMode(mode)

Run ==
    \/ handleDesignKitGeneration
    \/ handleGenerateDKPrompt
    \/ handleGenerateCreativePrompts
    \/ handleGenerateIllustration
    \/ handleDownloadVector
    \/ handleSmartRetouch
    \/ handleEnvironmentGeneration
    \/ handleGenerateRetouchPrompts
    \/ \E target \in UpscaleTarget : handleUpscale(target)

Settle ==
    \/ \E c \in calls, suggestions \in AllSuggestionMaps : analyzeFulfilled(c, suggestions)
    \/ \E c \in calls : analyzeRejected(c)
    \/ \E c \in calls, outcome \in ImageOutcomes : generateImageSettled(c, outcome)
    \/ \E c \in calls, outcome \in ImageOutcomes : generateDesignKitPromptSettled(c, outcome)
    \/ \E c \in calls, outcome \in ImageOutcomes : generateIllustrationPromptsSettled(c, outcome)
    \/ \E c \in calls, outcome \in ImageOutcomes : generateIllustrationSettled(c, outcome)
    \/ \E c \in calls, outcome \in ImageOutcomes : vectorizeImageSettled(c, outcome)
    \/ \E c \in calls, outcome \in ImageOutcomes : performSmartRetouchSettled(c, outcome)
    \/ \E c \in calls, outcome \in ImageOutcomes : generateEnvironmentSettled(c, outcome)
    \/ \E c \in calls, outcome \in ImageOutcomes : generateRetouchPromptsSettled(c, outcome)
    \/ \E c \in calls, outcome \in ImageOutcomes : upscaleImageSettled(c, outcome)

Next ==
    \/ TogglePreset
    \/ SelectMockup
    \/ MagicCompositeToggle
    \/ Upload
    \/ Edit
    \/ SwitchMode
    \/ handleOnline
    \/ handleOffline
    \/ Run
    \/ Settle
    \/ \E i \in 1..Len(generationHistory) : handleHistorySelect(i)

Spec == Init /\ [][Next]_vars

(***************************************************************************)
(* The toggle handlers as functions of an arbitrary prior selection: one   *)
(* multi-select category starts as any array that the handlers and the     *)
(* analysis can leave (duplicate-free, "none" only in front, the empty     *)
(* array and those that mix "none" with others included), or the mockup    *)
(* selection as any one-element array, and the only steps are clicks on    *)
(* presets.                                                                *)
(***************************************************************************)
\* the arrays of distinct elements of the list presets with "none" nowhere but
\* in front, the empty array included
Selections(presets) ==
    {s \in UNION {[1..n -> Range(presets)] : n \in 0..Len(presets)} :
        /\ \A i, j \in 1..Len(s) : i # j => s[i] # s[j]
        /\ \A i \in 2..Len(s) : s[i] # "none"}

SelectionsAre(cameras, lightings, manipulations, peopleRetouches, retouches, mockups) ==
    /\ selectedCameras = cameras
    /\ selectedLightings = lightings
    /\ selectedManipulations = manipulations
    /\ selectedPeopleRetouches = peopleRetouches
    /\ selectedRetouches = retouches
    /\ selectedMockups = mockups

InitToggle ==
    LET d == <<"none">>
    IN  /\ InitRest
        /\ isOnline
        /\ \/ \E s \in Selections(CAMERA_PRESETS) : SelectionsAre(s, d, d, d, d, d)
           \/ \E s \in Selections(LIGHTING_PRESETS) : SelectionsAre(d, s, d, d, d, d)
           \/ \E s \in Selections(MANIPULATION_PRESETS) : SelectionsAre(d, d, s, d, d, d)
           \/ \E s \in Selections(PEOPLE_RETOUCH_PRESETS) : SelectionsAre(d, d, d, s, d, d)
           \/ \E s \in Selections(RETOUCH_PRESETS) : SelectionsAre(d, d, d, d, s, d)
           \/ \E p \in Range(MOCKUP_PRESETS) : SelectionsAre(d, d, d, d, d, <<p>>)

NextToggle == TogglePreset \/ SelectMockup

SpecToggle == InitToggle /\ [][NextToggle]_vars

(***************************************************************************)
(* The inputs of SpecPresets.  The user clicks the sentinel and the first  *)
(* MaxClicked other presets of each list and uploads one image (or clears  *)
(* the slot).  An analysis response is any map from at most                *)
(* MaxSuggestedCats categories to lists of at most MaxSuggestedIds ids;    *)
(* the list for the cameras draws its ids from the clicked cameras, the    *)
(* sentinel and an id that no preset has, the lists of the other           *)
(* categories (the same statement, lines 486-489) from the clicked         *)
(* presets other than the sentinel.                                        *)
(***************************************************************************)
Clicked(presets) ==
    SubSeq(presets, 1, IF Len(presets) < 1 + MaxClicked THEN Len(presets) ELSE 1 + MaxClicked)

IdPool(key) ==
    IF key = "camera"
    THEN Clicked(CAMERA_PRESETS) \o <<"unlisted">>
    ELSE Tail(Clicked(PresetsOf(key)))

SuggestionLists(key) ==
    {SelectSeq(IdPool(key), LAMBDA x : x \in X) :
        X \in {Y \in SUBSET Range(IdPool(key)) : Cardinality(Y) <= MaxSuggestedIds}}

MapsOver(K) ==
    {{<<k, f[k]>> : k \in K} :
        f \in {g \in [K -> UNION {SuggestionLists(k) : k \in K}] :
                  \A k \in K : g[k] \in SuggestionLists(k)}}

SuggestionMaps ==
    UNION {MapsOver(K) : K \in {J \in SUBSET SuggestionKeys : Cardinality(J) <= MaxSuggestedCats}}

UploadedImages == {"imgA", NULL}

InitPresets == Init /\ isOnline

ClickPreset ==
    \/ \E p \in Range(Clicked(CAMERA_PRESETS)) : handleCameraToggle(p)
    \/ \E p \in Range(Clicked(LIGHTING_PRESETS)) : handleLightingToggle(p)
    \/ \E p \in Range(Clicked(MANIPULATION_PRESETS)) : handleManipulationToggle(p)
    \/ \E p \in Range(Clicked(PEOPLE_RETOUCH_PRESETS)) : handlePeopleRetouchToggle(p)
    \/ \E p \in Range(Clicked(RETOUCH_PRESETS)) : handleRetouchToggle(p)

AnalysisSettles ==
    \/ \E c \in calls, suggestions \in SuggestionMaps : analyzeFulfilled(c, suggestions)
    \/ \E c \in calls : analyzeRejected(c)

\* the step leaves at most MaxAnalyses analysis calls outstanding
AnalysesBounded == Cardinality(calls') <= MaxAnalyses

NextPresets ==
    \/ ClickPreset
    \/ MagicCompositeToggle /\ AnalysesBounded
    \/ \E image \in UploadedImages : setProductImage(image) /\ AnalysesBounded
    \/ \E image \in UploadedImages : setReferenceImage(image) /\ AnalysesBounded
    \/ \E mode \in AppMode : setAppMode(mode) /\ AnalysesBounded
    \/ AnalysisSettles

SpecPresets == InitPresets /\ [][NextPresets]_vars

(***************************************************************************)
(* A design-kit session that fills the history: the user uploads a         *)
(* product image and runs composite generations, whose calls return an     *)
(* image, return nothing or fail, and selects items of the history.        *)
(***************************************************************************)
InitAppend == Init /\ isOnline

NextAppend ==
    \/ setProductImage("imgA")
    \/ handleDesignKitGeneration
    \/ \E c \in calls, outcome \in Outcomes({"resA"}, Failures) :
           generateImageSettled(c, outcome)
    \/ \E i \in 1..Len(generationHistory) : handleHistorySelect(i)

SpecAppend == InitAppend /\ [][NextAppend]_vars

(***************************************************************************)
(* A session over every pipeline.  The connection is up or down from the   *)
(* start; the user uploads an image into each source slot, switches the    *)
(* mode and the creative sub-mode, runs any pipeline and selects items of  *)
(* the history.  A call returns the image resA, returns nothing or fails   *)
(* with an Error or with a value that is not one.  At most MaxRunCalls     *)
(* calls are outstanding and at most MaxRunAppends items are appended.     *)
(***************************************************************************)
RunOutcomes == Outcomes({"resA"}, Failures)

\* the step stays within the bounds of the session
RunsBounded ==
    /\ Cardinality(calls') <= MaxRunCalls
    /\ clock' <= MaxRunAppends

InitRuns == Init

NextRuns ==
    \/ setProductImage("imgA")
    \/ setIllustrationImage("imgA")
    \/ setPersonImage("imgA")
    \/ \E mode \in AppMode : setAppMode(mode)
    \/ \E mode \in CreativeMode : setCreativeMode(mode)
    \/ handleDesignKitGeneration /\ RunsBounded
    \/ handleGenerateDKPrompt /\ RunsBounded
    \/ handleGenerateCreativePrompts /\ RunsBounded
    \/ handleGenerateIllustration /\ RunsBounded
    \/ handleDownloadVector /\ RunsBounded
    \/ handleSmartRetouch /\ RunsBounded
    \/ handleEnvironmentGeneration /\ RunsBounded
    \/ handleGenerateRetouchPrompts /\ RunsBounded
    \/ \E target \in UpscaleTarget : handleUpscale(target) /\ RunsBounded
    \/ \E c \in calls, outcome \in RunOutcomes : generateImageSettled(c, outcome) /\ RunsBounded
    \/ \E c \in calls, outcome \in RunOutcomes : generateDesignKitPromptSettled(c, outcome)
    \/ \E c \in calls, outcome \in RunOutcomes : generateIllustrationPromptsSettled(c, outcome)
    \/ \E c \in calls, outcome \in RunOutcomes :
           generateIllustrationSettled(c, outcome) /\ RunsBounded
    \/ \E c \in calls, outcome \in RunOutcomes : vectorizeImageSettled(c, outcome)
    \/ \E c \in calls, outcome \in RunOutcomes :
           performSmartRetouchSettled(c, outcome) /\ RunsBounded
    \/ \E c \in calls, outcome \in RunOutcomes :
           generateEnvironmentSettled(c, outcome) /\ RunsBounded
    \/ \E c \in calls, outcome \in RunOutcomes : generateRetouchPromptsSettled(c, outcome)
    \/ \E c \in calls, outcome \in RunOutcomes : upscaleImageSettled(c, outcome) /\ RunsBounded
    \/ \E i \in 1..Len(generationHistory) : handleHistorySelect(i)

SpecRuns == InitRuns /\ [][NextRuns]_vars

(***************************************************************************)
(* Composite generations that overlap.  The user uploads a product image,  *)
(* runs the generation while earlier calls are still out, and types the    *)
(* prompt "a prompt" at some point, so that a call holding the prompt ""   *)
(* was issued before every call holding "a prompt".  A call returns resA   *)
(* or resB, returns nothing or fails.  At most MaxRaceAppends items are    *)
(* appended.                                                               *)
(***************************************************************************)
RaceOutcomes == Outcomes(Results, {"not an Error"})

InitRace == Init /\ isOnline

NextRace ==
    \/ setProductImage("imgA")
    \/ setCustomPrompt("a prompt")
    \/ handleDesignKitGeneration
    \/ \E c \in calls, outcome \in RaceOutcomes :
           generateImageSettled(c, outcome) /\ clock' <= MaxRaceAppends

SpecRace == InitRace /\ [][NextRace]_vars

(***************************************************************************)
(* Pipelines that overlap.  The session is online and in either mode and   *)
(* sub-mode, with an image uploaded in each source slot; the user runs any *)
(* pipeline while up to MaxCalls calls are out.  A call returns the image  *)
(* resA, returns nothing or fails with a value that is not an Error.  At   *)
(* most MaxOverlapAppends items are appended.                              *)
(***************************************************************************)
OverlapOutcomes == Outcomes({"resA"}, {"not an Error"})

\* the step stays within the bound of the session
OverlapBounded == clock' <= MaxOverlapAppends

InitOverlap ==
    /\ InitSelections
    /\ appMode \in AppMode
    /\ creativeMode \in CreativeMode
    /\ retouchSubMode = "smart"
    /\ isOnline = TRUE
    /\ productImage = "imgA" /\ referenceImage = NULL
    /\ illustrationImage = "imgA" /\ personImage = "imgA"
    /\ generatedImage = NULL /\ illustrationResultImage = NULL
    /\ retouchResultImage = NULL
    /\ customPrompt = "" /\ illustrationCustomPrompt = "" /\ artistCommand = ""
    /\ useMagicComposite = TRUE
    /\ isAnalyzing = FALSE
    /\ suggestedPresetIds = EmptyMap
    /\ error = NULL /\ creativeError = NULL /\ upscaleError = NULL
    /\ isLoading = FALSE /\ isGeneratingDKPrompt = FALSE
    /\ isGeneratingCreative = FALSE /\ isGeneratingIllustration = FALSE
    /\ isVectorizing = FALSE /\ isGeneratingPrompt = FALSE
    /\ isGeneratingRetouchPrompts = FALSE
    /\ isUpscaling = NotUpscaling
    /\ generationStatusText = ""
    /\ generationHistory = <<>>
    /\ calls = {}
    /\ clock = 0
    /\ lastOp = Op("mount", NULL)

NextOverlap ==
    \/ handleDesignKitGeneration
    \/ handleGenerateDKPrompt
    \/ handleGenerateCreativePrompts
    \/ handleGenerateIllustration
    \/ handleDownloadVector
    \/ handleSmartRetouch
    \/ handleEnvironmentGeneration
    \/ handleGenerateRetouchPrompts
    \/ \E target \in UpscaleTarget : handleUpscale(target)
    \/ \E c \in calls, outcome \in OverlapOutcomes : generateImageSettled(c, outcome) /\ OverlapBounded
    \/ \E c \in calls, outcome \in OverlapOutcomes : generateDesignKitPromptSettled(c, outcome)
    \/ \E c \in calls, outcome \in OverlapOutcomes : generateIllustrationPromptsSettled(c, outcome)
    \/ \E c \in calls, outcome \in OverlapOutcomes :
           generateIllustrationSettled(c, outcome) /\ OverlapBounded
    \/ \E c \in calls, outcome \in OverlapOutcomes : vectorizeImageSettled(c, outcome)
    \/ \E c \in calls, outcome \in OverlapOutcomes :
           performSmartRetouchSettled(c, outcome) /\ OverlapBounded
    \/ \E c \in calls, outcome \in OverlapOutcomes :
           generateEnvironmentSettled(c, outcome) /\ OverlapBounded
    \/ \E c \in calls, outcome \in OverlapOutcomes : generateRetouchPromptsSettled(c, outcome)
    \/ \E c \in calls, outcome \in OverlapOutcomes : upscaleImageSettled(c, outcome) /\ OverlapBounded

SpecOverlap == InitOverlap /\ [][NextOverlap]_vars

(***************************************************************************)
(* handleHistorySelect as a function of the item and of the session it is  *)
(* selected in.  The history holds one item, any that a pipeline makes     *)
(* from the image imgA, the result resA and a prompt of Prompts; the       *)
(* session is in either mode and sub-mode, every source slot holds an      *)
(* uploaded image, every result slot is empty or holds resB, every prompt  *)
(* field holds a prompt of Prompts, and every error slot is null or holds  *)
(* a message.  No call is in flight.                                       *)
(***************************************************************************)
ItemsOf(source, result) ==
    {DesignKitItem(1, source, result, p) : p \in Prompts}
        \cup {IllustrationItem(1, source, result, p) : p \in Prompts}
        \cup {SmartRetouchItem(1, source, result),
              EnvironmentItem(1, source, result, selectedEnvironment)}
        \cup {UpscaleItem(1, "design-kit", NULL, source, result, p, t) :
                 p \in Prompts, t \in UpscaleTarget}
        \cup {UpscaleItem(1, "creative-studio", sub, source, result, "", t) :
                 sub \in CreativeMode, t \in UpscaleTarget}

InitSelect ==
    /\ InitSelections
    /\ appMode \in AppMode
    /\ creativeMode \in CreativeMode
    /\ retouchSubMode = "smart"
    /\ isOnline = TRUE
    /\ productImage \in Images /\ illustrationImage \in Images /\ personImage \in Images
    /\ referenceImage = NULL
    /\ generatedImage \in {NULL, "resB"}
    /\ illustrationResultImage \in {NULL, "resB"}
    /\ retouchResultImage \in {NULL, "resB"}
    /\ customPrompt \in Prompts
    /\ illustrationCustomPrompt \in Prompts
    /\ artistCommand \in Prompts
    /\ useMagicComposite = TRUE
    /\ isAnalyzing = FALSE
    /\ suggestedPresetIds = EmptyMap
    /\ error \in {NULL, "The AI could not generate an image. Please try again."}
    /\ creativeError \in {NULL, "The AI could not retouch the image."}
    /\ upscaleError \in {NULL, "The AI could not upscale the image."}
    /\ isLoading = FALSE /\ isGeneratingDKPrompt = FALSE
    /\ isGeneratingCreative = FALSE /\ isGeneratingIllustration = FALSE
    /\ isVectorizing = FALSE /\ isGeneratingPrompt = FALSE
    /\ isGeneratingRetouchPrompts = FALSE
    /\ isUpscaling = NotUpscaling
    /\ generationStatusText = ""
    /\ generationHistory \in {<<item>> : item \in ItemsOf("imgA", "resA")}
    /\ calls = {}
    /\ clock = 1
    /\ lastOp = Op("mount", NULL)

NextSelect == \E i \in 1..Len(generationHistory) : handleHistorySelect(i)

SpecSelect == InitSelect /\ [][NextSelect]_vars

(***************************************************************************)
(* Properties of the preset selections.                                    *)
(***************************************************************************)
ToggleOps == {"handleCameraToggle", "handleLightingToggle", "handleManipulationToggle",
              "handlePeopleRetouchToggle", "handleRetouchToggle"}

\* a toggle handler ran last
Toggled == lastOp.op \in ToggleOps

\* the selection that the toggle handler that ran last has written
ToggledSelection ==
    CASE lastOp.op = "handleCameraToggle" -> selectedCameras
      [] lastOp.op = "handleLightingToggle" -> selectedLightings
      [] lastOp.op = "handleManipulationToggle" -> selectedManipulations
      [] lastOp.op = "handlePeopleRetouchToggle" -> selectedPeopleRetouches
      [] lastOp.op = "handleRetouchToggle" -> selectedRetouches

\* the position of id in the array s (0 when absent)
IndexOf(s, id) == IF Includes(s, id) THEN CHOOSE i \in 1..Len(s) : s[i] = id ELSE 0

\* the elements of t come in the order they have in s
SameOrder(s, t) ==
    \A i, j \in 1..Len(t) : i < j => IndexOf(s, t[i]) < IndexOf(s, t[j])

\* a multi-select selection as the handlers are meant to leave it
WellFormed(s) == Len(s) >= 1 /\ (s = <<"none">> \/ ~Includes(s, "none"))

\* C1: in every reachable state each of the camera, lighting, manipulation,
\* people-retouch and retouch selections is non-empty and is either exactly
\* [none] or an array that does not contain the preset "none".
C1_SelectionsWellFormed ==
    /\ WellFormed(selectedCameras)
    /\ WellFormed(selectedLightings)
    /\ WellFormed(selectedManipulations)
    /\ WellFormed(selectedPeopleRetouches)
    /\ WellFormed(selectedRetouches)

\* C2: for every multi-select category, every prior selection and every
\* preset of the category, the selection a toggle leaves has at least one
\* element.
C2_ToggleNeverEmpty == Toggled => Len(ToggledSelection) >= 1

\* a toggle has run on a selection that held only the toggled preset
C2_Witness ==
    /\ Toggled
    /\ Len(lastOp.arg.prev) = 1
    /\ lastOp.arg.prev[1] = lastOp.arg.preset
    /\ Len(ToggledSelection) = 1

\* C3: toggling the preset "none" leaves exactly [none], whatever the prior
\* selection was.
C3_ToggleNoneResets ==
    (Toggled /\ lastOp.arg.preset = "none") => ToggledSelection = <<"none">>

\* "none" has been toggled on a selection of several presets
C3_Witness ==
    /\ Toggled
    /\ lastOp.arg.preset = "none"
    /\ Len(lastOp.arg.prev) > 1
    /\ ToggledSelection = <<"none">>

\* C4: toggling the preset that is the only selected one, and is not the
\* sentinel, leaves exactly [none].
C4_ToggleSoleReverts ==
    (Toggled /\ lastOp.arg.preset # "none" /\ lastOp.arg.prev = <<lastOp.arg.preset>>)
        => ToggledSelection = <<"none">>

\* the only selected camera, not the sentinel, has been toggled
C4_Witness ==
    /\ lastOp.op = "handleCameraToggle"
    /\ lastOp.arg.preset # "none"
    /\ lastOp.arg.prev = <<lastOp.arg.preset>>
    /\ selectedCameras = <<"none">>

\* C5: toggling a preset that is selected, when the selection holds more
\* than one element, removes exactly that preset and keeps the others in
\* their order.
C5_ToggleRemoves ==
    (Toggled /\ Includes(lastOp.arg.prev, lastOp.arg.preset) /\ Len(lastOp.arg.prev) > 1)
        => /\ Range(ToggledSelection) = Range(lastOp.arg.prev) \ {lastOp.arg.preset}
           /\ Len(ToggledSelection) = Len(lastOp.arg.prev) - 1
           /\ SameOrder(lastOp.arg.prev, ToggledSelection)

\* C6: toggling a preset that is not the sentinel and is not selected leaves
\* the prior selection without the sentinel, its members in their order,
\* followed by the toggled preset.
C6_ToggleAppends ==
    (Toggled /\ lastOp.arg.preset # "none" /\ ~Includes(lastOp.arg.prev, lastOp.arg.preset))
        => LET prev == lastOp.arg.prev
               n == Len(ToggledSelection)
           IN  /\ n = Cardinality(Range(prev) \ {"none"}) + 1
               /\ ToggledSelection[n] = lastOp.arg.preset
               /\ Range(SubSeq(ToggledSelection, 1, n - 1)) = Range(prev) \ {"none"}
               /\ SameOrder(prev, SubSeq(ToggledSelection, 1, n - 1))

\* an absent camera has been toggled on a selection that held "none" and two
\* other cameras
C6_Witness ==
    /\ lastOp.op = "handleCameraToggle"
    /\ lastOp.arg.preset # "none"
    /\ ~Includes(lastOp.arg.prev, lastOp.arg.preset)
    /\ Includes(lastOp.arg.prev, "none")
    /\ Len(lastOp.arg.prev) = 3
    /\ Len(selectedCameras) = 3

\* C7: the mockup selection always holds exactly one preset; selecting a
\* preset other than the selected one leaves [that preset], selecting the
\* selected one leaves [the preset at index 0].
C7_MockupSingleSelect ==
    /\ Len(selectedMockups) = 1
    /\ lastOp.op = "handleMockupSelect" =>
           IF lastOp.arg.prev[1] = lastOp.arg.preset
           THEN selectedMockups = <<MOCKUP_PRESETS[1]>>
           ELSE selectedMockups = <<lastOp.arg.preset>>

\* the selected mockup, not the one at index 0, has been selected again
C7_Witness ==
    /\ lastOp.op = "handleMockupSelect"
    /\ lastOp.arg.prev = <<lastOp.arg.preset>>
    /\ lastOp.arg.preset # MOCKUP_PRESETS[1]
    /\ selectedMockups = <<MOCKUP_PRESETS[1]>>

(***************************************************************************)
(* Properties of the history.                                              *)
(***************************************************************************)
\* the time at which the item at position i was made
MadeAt(i) == generationHistory[i].id[1]

\* C8: the history never holds more than 12 items; the item appended last is
\* at the front, and after n appends the history holds the 12 most recent
\* items (all n when n < 12), most recent first: after 13 appends the items
\* made at 13, 12, ..., 2.
C8_HistoryHoldsMostRecent ==
    /\ Len(generationHistory) <= 12
    /\ Len(generationHistory) = (IF clock < 12 THEN clock ELSE 12)
    /\ \A i \in 1..Len(generationHistory) : MadeAt(i) = clock - i + 1

\* thirteen items have been appended and the first one is gone
C8_Witness ==
    /\ clock = 13
    /\ Len(generationHistory) = 12
    /\ MadeAt(1) = 13
    /\ MadeAt(12) = 2

\* handleHistorySelect ran last, on SelectedItem
Selected == lastOp.op = "handleHistorySelect"
SelectedItem == lastOp.arg.item

\* the source image, the result image and the prompt text of the mode an
\* item belongs to
SourceOf(item) ==
    CASE IsDesignKit(item) -> productImage
      [] IsIllustrate(item) -> illustrationImage
      [] IsRetouch(item) -> personImage

ResultOf(item) ==
    CASE IsDesignKit(item) -> generatedImage
      [] IsIllustrate(item) -> illustrationResultImage
      [] IsRetouch(item) -> retouchResultImage

PromptOf(item) ==
    CASE IsDesignKit(item) -> customPrompt
      [] IsIllustrate(item) -> illustrationCustomPrompt
      [] IsRetouch(item) -> artistCommand

\* C9 as stated: selecting a history item of any kind makes the mode
\* item.mode, the creative sub-mode item.creativeSubMode, and the source
\* image, result image and prompt text of the item's mode item.source,
\* item.generated and item.prompt.
C9_SelectRestoresAll ==
    Selected =>
        /\ appMode = SelectedItem.mode
        /\ SelectedItem.mode = "creative-studio" => creativeMode = SelectedItem.creativeSubMode
        /\ SourceOf(SelectedItem) = SelectedItem.source
        /\ ResultOf(SelectedItem) = SelectedItem.generated
        /\ PromptOf(SelectedItem) = SelectedItem.prompt

\* C9 as amended: selecting a history item of any kind makes the mode
\* item.mode, the creative sub-mode item.creativeSubMode, and the source
\* image and result image of the item's mode item.source and item.generated;
\* the prompt text of the item's mode becomes item.prompt for design-kit and
\* illustrate items.
C9_SelectRestores ==
    Selected =>
        /\ appMode = SelectedItem.mode
        /\ SelectedItem.mode = "creative-studio" => creativeMode = SelectedItem.creativeSubMode
        /\ SourceOf(SelectedItem) = SelectedItem.source
        /\ ResultOf(SelectedItem) = SelectedItem.generated
        /\ ~IsRetouch(SelectedItem) => PromptOf(SelectedItem) = SelectedItem.prompt

\* an illustrate item with a prompt has been selected in the design kit
C9_Witness ==
    /\ Selected
    /\ IsIllustrate(SelectedItem)
    /\ SelectedItem.prompt = "a prompt"
    /\ appMode = "creative-studio" /\ creativeMode = "illustrate"
    /\ illustrationImage = "imgA" /\ illustrationResultImage = "resA"
    /\ illustrationCustomPrompt = "a prompt"
    /\ generatedImage = NULL /\ retouchResultImage = NULL

\* C10: right after a history item is selected the design-kit error, the
\* creative error and the upscale error are all null, whatever they were
\* before.
C10_SelectClearsErrors ==
    Selected => error = NULL /\ creativeError = NULL /\ upscaleError = NULL

\* an item has been selected while all three error slots held a message
C10_Witness ==
    /\ Selected
    /\ \A k \in 1..3 : lastOp.arg.before[k] # NULL
    /\ error = NULL /\ creativeError = NULL /\ upscaleError = NULL

(***************************************************************************)
(* Properties of the steps that touch the history.                         *)
(***************************************************************************)
\* the step prepends one item and drops what is past the capacity
Appends ==
    /\ Len(generationHistory') >= 1
    /\ generationHistory' =
           SubSeq(<<generationHistory'[1]>> \o generationHistory, 1,
                  IF Len(generationHistory) < 12 THEN Len(generationHistory) + 1 ELSE 12)

\* C11: the history changes only by an append (one item in front, what is
\* past position 12 dropped), so no entry is altered and an entry leaves
\* only past position 12; selecting a history item leaves the history as it
\* is.
C11_HistoryChangesOnlyByAppend ==
    [][/\ generationHistory' # generationHistory => Appends
       /\ lastOp'.op = "handleHistorySelect" => generationHistory' = generationHistory]_vars

\* an item has been selected in a full history that has evicted its first
\* entry
C11_Witness ==
    /\ Selected
    /\ clock = 13
    /\ Len(generationHistory) = 12
    /\ MadeAt(12) = 2
    /\ SelectedItem = generationHistory[12]


(***************************************************************************)
(* The magic-composite toggle (lines 528-538).                             *)
(***************************************************************************)
DefaultsSelected ==
    /\ selectedCameras = <<CAMERA_PRESETS[1]>>
    /\ selectedLightings = <<LIGHTING_PRESETS[1]>>
    /\ selectedManipulations = <<MANIPULATION_PRESETS[1]>>
    /\ selectedRetouches = <<RETOUCH_PRESETS[1]>>
    /\ selectedPeopleRetouches = <<PEOPLE_RETOUCH_PRESETS[1]>>

\* the step is a call of the toggle with the argument enabled
MagicToggled(enabled) ==
    /\ lastOp'.op = "handleMagicCompositeToggle"
    /\ lastOp'.arg = enabled

\* the analysis effect started in the step: it issued its call
AnalysisStarted == calls' # calls

\* C12: a call of the magic-composite toggle with enabled = false leaves, in
\* the same step, each of the camera, lighting, manipulation, retouch and
\* people-retouch selections holding only the first preset of its list and
\* the suggestion map empty; a call with enabled = true changes none of the
\* five selections and does not write the suggestion map (the only write
\* of that step is setSuggestedPresetIds({}) of the analysis effect, line
\* 482, when the toggle makes the effect run).
C12_MagicToggleResets ==
    [][/\ MagicToggled(FALSE) => DefaultsSelected' /\ suggestedPresetIds' = EmptyMap
       /\ MagicToggled(TRUE) =>
              /\ UNCHANGED multiSelVars
              /\ \/ suggestedPresetIds' = suggestedPresetIds
                 \/ AnalysisStarted /\ suggestedPresetIds' = EmptyMap]_vars

\* the toggle was switched off while the analysis was in flight
C12_Witness ==
    /\ lastOp.op = "handleMagicCompositeToggle"
    /\ lastOp.arg = FALSE
    /\ ~useMagicComposite
    /\ isAnalyzing
    /\ DefaultsSelected
    /\ suggestedPresetIds = EmptyMap


(***************************************************************************)
(* The pipelines' runs.  A step is a run of the handler op when it leaves  *)
(* lastOp naming op; the precondition of a handler is read in the state    *)
(* the handler is called in.                                               *)
(***************************************************************************)
\* composite generation, illustration, smart retouch, environment generation
GenerationHandlers ==
    {"handleDesignKitGeneration", "handleGenerateIllustration", "handleSmartRetouch",
     "handleEnvironmentGeneration"}

\* the prompt suggestions that read an image
ImagePromptHandlers == {"handleGenerateDKPrompt", "handleGenerateCreativePrompts"}

\* the handlers that check something before their call
GuardedHandlers ==
    GenerationHandlers \cup ImagePromptHandlers \cup {"handleUpscale", "handleDownloadVector"}

RunHandlers == GuardedHandlers \cup {"handleGenerateRetouchPrompts"}

\* the image the upscale reads and the source it records (lines 776-777)
ImageToUpscale ==
    IF appMode = "design-kit" THEN generatedImage
    ELSE IF creativeMode = "retouch" THEN retouchResultImage ELSE illustrationResultImage

UpscaleSource ==
    IF appMode = "design-kit" THEN productImage
    ELSE IF creativeMode = "retouch" THEN personImage ELSE illustrationImage

\* the check that makes the handler return before its call (lines 541, 568,
\* 593-594, 618, 647, 678, 705, 779)
PreconditionFails(op) ==
    CASE op = "handleDesignKitGeneration" -> ~isOnline \/ productImage = NULL
      [] op = "handleGenerateDKPrompt" -> productImage = NULL
      [] op = "handleGenerateCreativePrompts" ->
             creativeMode # "illustrate" \/ illustrationImage = NULL
      [] op = "handleGenerateIllustration" -> ~isOnline \/ illustrationImage = NULL
      [] op = "handleDownloadVector" -> illustrationResultImage = NULL
      [] op = "handleSmartRetouch" -> ~isOnline \/ personImage = NULL
      [] op = "handleEnvironmentGeneration" -> ~isOnline \/ personImage = NULL
      [] op = "handleUpscale" -> ImageToUpscale = NULL \/ UpscaleSource = NULL
      [] OTHER -> FALSE

\* the three error slots (lines 379-381)
Slots == {"error", "creativeError", "upscaleError"}

Slot(name) ==
    CASE name = "error" -> error
      [] name = "creativeError" -> creativeError
      [] name = "upscaleError" -> upscaleError

\* the slot that the handler op and the rest of it after the await write
SlotOf(op) ==
    CASE op \in {"handleDesignKitGeneration", "handleGenerateDKPrompt"} -> "error"
      [] op = "handleUpscale" -> "upscaleError"
      [] OTHER -> "creativeError"

ErrorSlot(op) == Slot(SlotOf(op))

\* the step is a call of the handler op
Ran(op) == lastOp'.op = op

\* C13: a run of composite generation, illustration, smart retouch,
\* environment generation, upscale, vectorize or an image-based prompt
\* suggestion whose precondition fails (source image missing, or offline
\* where the handler checks it) issues no external call: the outstanding
\* calls are the same after the step.
C13_FailedPreconditionIssuesNoCall ==
    [][\A op \in GuardedHandlers : Ran(op) /\ PreconditionFails(op) => calls' = calls]_vars

\* an illustration was run offline with its image uploaded, and no call is out
C13_Witness ==
    /\ lastOp.op = "handleGenerateIllustration"
    /\ lastOp.arg = "precondition"
    /\ ~isOnline
    /\ illustrationImage # NULL
    /\ calls = {}

\* C14: for every pipeline, upscale and vectorize included, a run whose
\* precondition fails leaves that pipeline's error slot holding a message
\* (not null).
C14_FailedPreconditionSetsError ==
    [][\A op \in GuardedHandlers :
          Ran(op) /\ PreconditionFails(op) => ErrorSlot(op)' # NULL]_vars


(***************************************************************************)
(* Overlapping composite generations (lines 545-564).                      *)
(***************************************************************************)
\* a composite generation has just stored a result and no call is out
AllSettledWithResult ==
    /\ lastOp.op = "generateImageSettled"
    /\ lastOp.arg.kind = "result"
    /\ calls = {}

\* the two items at the front of the history are the results of two calls of
\* which the one issued first (with the prompt "") settled last
FirstIssuedSettledLast ==
    /\ Len(generationHistory) >= 2
    /\ generationHistory[1].prompt = ""
    /\ generationHistory[2].prompt = "a prompt"

\* C15: when composite generation is run twice before either call settles
\* and the call issued first fulfils with an image after the call issued
\* second has fulfilled, then once both have settled generatedImage is the
\* result of the first call: the response that settles last is stored, and
\* nothing discards the response of the overtaken call.
C15_LastSettledWins ==
    AllSettledWithResult /\ FirstIssuedSettledLast
        => generatedImage = generationHistory[1].generated

\* the second call returned resB, then the first call returned resA
C15_Witness ==
    /\ AllSettledWithResult
    /\ FirstIssuedSettledLast
    /\ clock = 2
    /\ generationHistory[1].generated = "resA"
    /\ generationHistory[2].generated = "resB"
    /\ generatedImage = "resA"


(***************************************************************************)
(* The error slots at the start of a run (lines 545-548, 572-573, 598-599, *)
(* 622-623, 649-650, 682-684, 709-711, 732-733, 781-784).                  *)
(***************************************************************************)
\* the step is a run of the handler op that passes its precondition
Started(op) == Ran(op) /\ ~PreconditionFails(op)

\* the slots of other pipelines that the start of op clears besides its own
AlsoCleared(op) ==
    CASE op = "handleDesignKitGeneration" -> {"upscaleError"}
      [] op = "handleUpscale" -> {"error", "creativeError"}
      [] OTHER -> {}

\* every slot but those of the set cleared keeps its value in the step
OthersKept(cleared) == \A name \in Slots \ cleared : Slot(name)' = Slot(name)

\* C16 as stated: the start of a run clears the slot of its pipeline and
\* leaves every other error slot as it was.
C16_StartClearsOnlyOwnSlot ==
    [][\A op \in RunHandlers :
          Started(op) => ErrorSlot(op)' = NULL /\ OthersKept({SlotOf(op)})]_vars

\* C16: the start of a run (precondition satisfied) clears the error slot of
\* its pipeline; the start of a composite generation clears the upscale
\* error as well, the start of an upscale clears the design-kit error and
\* the creative error as well, and the start of any other pipeline leaves
\* every other error slot as it was.
C16_StartClearsOwnSlot ==
    [][\A op \in RunHandlers :
          Started(op) =>
              /\ \A name \in {SlotOf(op)} \cup AlsoCleared(op) : Slot(name)' = NULL
              /\ OthersKept({SlotOf(op)} \cup AlsoCleared(op))]_vars

\* a composite generation started while a creative error was pending
C16_Witness ==
    /\ lastOp.op = "handleDesignKitGeneration"
    /\ lastOp.arg = "run"
    /\ isLoading
    /\ error = NULL
    /\ upscaleError = NULL
    /\ creativeError # NULL


(***************************************************************************)
(* The error that the creative studio shows (lines 1219-1223): one overlay *)
(* over the viewer of either sub-mode.                                     *)
(***************************************************************************)
\* the text of the overlay, or null when the overlay is not rendered
CreativeOverlay ==
    IF /\ appMode = "creative-studio"
       /\ creativeError # NULL \/ upscaleError # NULL
       /\ ~(isGeneratingCreative \/ isGeneratingIllustration
              \/ isUpscaling # NotUpscaling \/ isVectorizing)
    THEN IF creativeError # NULL THEN creativeError ELSE upscaleError
    ELSE NULL

\* the messages that only the illustration pipeline stores: generation
\* (lines 619, 635, 639), vectorize (lines 666, 670) and the illustration
\* prompt suggestion (lines 595, 607)
IllustrationMessages ==
    {"Please upload an image to illustrate.",
     "The AI could not generate an illustration. Please try a different style or image.",
     "An unknown error occurred during illustration.",
     "The AI could not convert the image to SVG.",
     "An unknown error occurred during vectorization.",
     "Please upload a base image first.",
     "The AI could not generate any suggestions."}

\* the messages that only the retouch pipelines store (lines 679, 693, 697,
\* 706, 720, 724)
RetouchMessages ==
    {"Please upload a portrait to retouch.",
     "The AI could not retouch the image.",
     "An unknown error occurred during retouching.",
     "Please upload a portrait.",
     "The AI could not generate the environment.",
     "An unknown error occurred during environment generation."}

\* C17: an error of the illustration pipeline (generation, vectorize or
\* illustration prompt suggestion) is never the error shown while the
\* creative sub-mode is retouch, and an error of a retouch pipeline is never
\* the error shown while the sub-mode is illustrate.
C17_ErrorsScopedToSubMode ==
    /\ creativeMode = "retouch" => CreativeOverlay \notin IllustrationMessages
    /\ creativeMode = "illustrate" => CreativeOverlay \notin RetouchMessages


(***************************************************************************)
(* The calls of a run (lines 551, 575, 602, 629, 654, 687, 714, 735, 788). *)
(***************************************************************************)
\* the steps that are the rest of a handler after its await
SettleOps ==
    {"generateImageSettled", "generateDesignKitPromptSettled",
     "generateIllustrationPromptsSettled", "generateIllustrationSettled",
     "vectorizeImageSettled", "performSmartRetouchSettled", "generateEnvironmentSettled",
     "generateRetouchPromptsSettled", "upscaleImageSettled"}

\* the step is the rest of a handler after its call settled
Settled == lastOp'.op \in SettleOps

\* C18: a run of a pipeline whose precondition holds issues exactly one
\* external call; the step in which a call settles (with an image, with
\* nothing or with a failure) takes that call away and issues none, and a
\* call is issued only by a step in which the user runs a pipeline: there
\* is no automatic retry.
C18_OneCallPerRun ==
    [][/\ \A op \in RunHandlers :
              Started(op) => /\ calls \subseteq calls'
                             /\ Cardinality(calls') = Cardinality(calls) + 1
       /\ Settled => /\ calls' \subseteq calls
                      /\ Cardinality(calls') = Cardinality(calls) - 1
       /\ ~(calls' \subseteq calls) => \E op \in RunHandlers : Started(op)]_vars

\* a smart retouch failed and left no call behind
C18_Witness ==
    /\ lastOp.op = "performSmartRetouchSettled"
    /\ lastOp.arg.kind = "throw"
    /\ calls = {}
    /\ ~isGeneratingCreative
    /\ creativeError = "An unknown error occurred during retouching."


(***************************************************************************)
(* The fulfilment of a generation call (lines 552-558, 630-636, 688-694,   *)
(* 715-721, 789-802).                                                      *)
(***************************************************************************)
GenerationSettleOps ==
    {"generateImageSettled", "generateIllustrationSettled", "performSmartRetouchSettled",
     "generateEnvironmentSettled"}

\* the step is the rest of the handler named by op after its call returned
\* an outcome of the given kind
SettledWith(op, kind) ==
    /\ lastOp'.op = op
    /\ lastOp'.arg.kind = kind

\* the call that settled in the step
SettledCall == CHOOSE c \in calls : c \notin calls'

\* the result field that the pipeline owns
ResultField(op) ==
    CASE op = "generateImageSettled" -> generatedImage
      [] op = "generateIllustrationSettled" -> illustrationResultImage
      [] op \in {"performSmartRetouchSettled", "generateEnvironmentSettled"} ->
             retouchResultImage

\* the prompt, the mode and the sub-mode that the item of a pipeline carries,
\* for the call c
PromptFor(op, c) ==
    CASE op \in {"generateImageSettled", "generateIllustrationSettled"} -> c.prompt
      [] op = "performSmartRetouchSettled" -> "Smart Studio Retouch"
      [] op = "generateEnvironmentSettled" -> "Environment: " \o c.prompt

ModeFor(op) == IF op = "generateImageSettled" THEN "design-kit" ELSE "creative-studio"

SubModeFor(op) ==
    CASE op = "generateImageSettled" -> NULL
      [] op = "generateIllustrationSettled" -> "illustrate"
      [] op \in {"performSmartRetouchSettled", "generateEnvironmentSettled"} -> "retouch"

\* C19: when the call of composite generation, illustration, smart retouch
\* or environment generation fulfils with an image, the step stores that
\* image in the result field of the pipeline, prepends exactly one item to
\* the history, which carries the source image of the call, that image,
\* the prompt of the pipeline and its mode and creative sub-mode, and
\* writes no error slot.
C19_ResultStoredAndRecorded ==
    [][\A op \in GenerationSettleOps :
          SettledWith(op, "result") =>
              /\ ResultField(op)' = lastOp'.arg.value
              /\ Appends
              /\ Len(generationHistory') = Len(generationHistory) + 1
                     \/ Len(generationHistory) = 12
              /\ generationHistory'[1].source = SettledCall.source
              /\ generationHistory'[1].generated = lastOp'.arg.value
              /\ generationHistory'[1].prompt = PromptFor(op, SettledCall)
              /\ generationHistory'[1].mode = ModeFor(op)
              /\ generationHistory'[1].creativeSubMode = SubModeFor(op)
              /\ UNCHANGED errorVars]_vars

\* an illustration returned resA for the image imgA
C19_Witness ==
    /\ lastOp.op = "generateIllustrationSettled"
    /\ lastOp.arg.kind = "result"
    /\ illustrationResultImage = "resA"
    /\ Len(generationHistory) = 1
    /\ generationHistory[1].source = "imgA"
    /\ generationHistory[1].generated = "resA"
    /\ generationHistory[1].creativeSubMode = "illustrate"
    /\ error = NULL /\ creativeError = NULL /\ upscaleError = NULL


(***************************************************************************)
(* The fulfilment of a call with nothing (lines 556-558, 579-581, 606-608, *)
(* 634-636, 665-667, 692-694, 719-721, 736, 800-802).                      *)
(***************************************************************************)
\* the slot that the rest of a handler after its await writes
SettleSlotOf(op) ==
    CASE op \in {"generateImageSettled", "generateDesignKitPromptSettled"} -> "error"
      [] op = "upscaleImageSettled" -> "upscaleError"
      [] OTHER -> "creativeError"

\* the messages that the handlers store for a call that returned nothing
CouldNotGenerateMessages ==
    {"The AI could not generate an image. Please try again.",
     "The AI could not generate any prompt suggestions.",
     "The AI could not generate any suggestions.",
     "The AI could not generate an illustration. Please try a different style or image.",
     "The AI could not convert the image to SVG.",
     "The AI could not retouch the image.",
     "The AI could not generate the environment.",
     "The AI could not upscale the image."}

\* C20: when the call of a pipeline fulfils with an empty or null result,
\* the step leaves the error slot of the pipeline holding its "could not
\* generate" message (not null), writes no result field and leaves the
\* history as it was.
C20_EmptyResultSetsError ==
    [][\A op \in SettleOps :
          SettledWith(op, "empty") =>
              /\ Slot(SettleSlotOf(op))' # NULL
              /\ Slot(SettleSlotOf(op))' \in CouldNotGenerateMessages
              /\ UNCHANGED resultVars
              /\ UNCHANGED generationHistory]_vars


(***************************************************************************)
(* The rejection of a call (lines 559-561, 582-584, 609-611, 637-639,      *)
(* 668-670, 695-697, 722-724, 737-739, 803-805).                           *)
(***************************************************************************)
\* the strings that the handlers store for a failure that is not an Error
FallbackMessages ==
    {"An unknown error occurred.",
     "An unknown error occurred during prompt generation.",
     "An unknown error occurred during illustration.",
     "An unknown error occurred during vectorization.",
     "An unknown error occurred during retouching.",
     "An unknown error occurred during environment generation.",
     "An unknown error occurred during upscaling."}

\* a run of the handler op would pass its check and issue its call
CanStart(op) == ~PreconditionFails(op) /\ CanIssue

\* C21: when the call of a pipeline rejects, the step leaves the error slot
\* of the pipeline holding a string (the message of the failure, or the
\* fallback of the handler when the failure is not an Error), writes no
\* result field and leaves the history as it was; the controller stays
\* operable: every run that could start before the rejection can start
\* after it.
C21_RejectionSetsError ==
    [][\A op \in SettleOps :
          SettledWith(op, "throw") =>
              /\ Slot(SettleSlotOf(op))' # NULL
              /\ lastOp'.arg.value # "not an Error" =>
                     Slot(SettleSlotOf(op))' = lastOp'.arg.value
              /\ lastOp'.arg.value = "not an Error" =>
                     Slot(SettleSlotOf(op))' \in FallbackMessages
              /\ UNCHANGED resultVars
              /\ UNCHANGED generationHistory
              /\ \A h \in RunHandlers : CanStart(h) => CanStart(h)']_vars

\* an illustration failed with an Error, and a new one can be run
C21_Witness ==
    /\ lastOp.op = "generateIllustrationSettled"
    /\ lastOp.arg.kind = "throw"
    /\ creativeError = "Network request failed"
    /\ illustrationResultImage = NULL
    /\ generationHistory = <<>>
    /\ CanStart("handleGenerateIllustration")


(***************************************************************************)
(* The finally blocks (lines 562-564, 585-587, 612-614, 640-643, 671-674,  *)
(* 698-701, 725-728, 740-742, 806-809).                                    *)
(***************************************************************************)
\* the busy flag of the pipeline whose call settles in a step named op is set
Busy(op) ==
    CASE op = "generateImageSettled" -> isLoading
      [] op = "generateDesignKitPromptSettled" -> isGeneratingDKPrompt
      [] op = "generateIllustrationPromptsSettled" -> isGeneratingPrompt
      [] op = "generateIllustrationSettled" -> isGeneratingIllustration
      [] op = "vectorizeImageSettled" -> isVectorizing
      [] op \in {"performSmartRetouchSettled", "generateEnvironmentSettled"} ->
             isGeneratingCreative
      [] op = "generateRetouchPromptsSettled" -> isGeneratingRetouchPrompts
      [] op = "upscaleImageSettled" -> isUpscaling # NotUpscaling

\* the pipelines whose handler writes the status text
StatusWriters ==
    {"generateIllustrationSettled", "vectorizeImageSettled", "performSmartRetouchSettled",
     "generateEnvironmentSettled", "upscaleImageSettled"}

\* C22 as stated: after the step in which the call of a pipeline settles, by
\* any outcome, the busy flag of the pipeline is false and the status text
\* is the empty string.
C22_SettleClearsBusyAndStatus ==
    [][\A op \in SettleOps :
          lastOp'.op = op => ~Busy(op)' /\ generationStatusText' = ""]_vars

\* C22: after the step in which the call of a pipeline settles, by any
\* outcome (image, nothing, failure), the busy flag of the pipeline is
\* false; the status text is the empty string when the pipeline is one
\* that writes it (illustration, vectorize, smart retouch, environment
\* generation, upscale), and is left as it was by composite generation and
\* the three prompt suggestions, which never write it.
C22_SettleClearsBusy ==
    [][\A op \in SettleOps :
          lastOp'.op = op =>
              /\ ~Busy(op)'
              /\ IF op \in StatusWriters
                 THEN generationStatusText' = ""
                 ELSE generationStatusText' = generationStatusText]_vars

\* a composite generation failed while an illustration was being made
C22_Witness ==
    /\ lastOp.op = "generateImageSettled"
    /\ lastOp.arg.kind = "throw"
    /\ ~isLoading
    /\ isGeneratingIllustration
    /\ generationStatusText = "Sketching your vision..."


(***************************************************************************)
(* The runs of the analysis effect (lines 478-500).                        *)
(***************************************************************************)
\* a dependency of the effect changed in the step: its value differs, or an
\* image was uploaded (a new object, whatever it shows)
DependencyChanged ==
    \/ <<productImage, referenceImage, useMagicComposite, appMode>>' #
           <<productImage, referenceImage, useMagicComposite, appMode>>
    \/ lastOp'.op \in {"setProductImage", "setReferenceImage"} /\ lastOp'.arg # NULL

\* the step issued an analysis call
AnalysisIssued ==
    \E c \in calls' : c \notin calls /\ c.fn = "analyzeForCompositeSuggestions"

\* the configuration in which the analysis runs
AnalysisConfigured ==
    /\ appMode = "design-kit"
    /\ productImage # NULL
    /\ referenceImage # NULL
    /\ useMagicComposite

\* C23: a step that changes the product image, the reference image, the
\* magic-composite flag or the mode issues an analysis call if and only
\* if, after the change, the mode is design-kit, both images are present
\* and the flag is enabled; no other step issues an analysis call.
C23_AnalysisRunsWhenConfigured ==
    [][/\ DependencyChanged => (AnalysisIssued <=> AnalysisConfigured')
       /\ ~DependencyChanged => ~AnalysisIssued]_vars

\* the switch back to the design kit started an analysis
C23_Witness ==
    /\ lastOp.op = "setAppMode"
    /\ lastOp.arg = "design-kit"
    /\ AnalysisConfigured
    /\ isAnalyzing
    /\ \E c \in calls : c.fn = "analyzeForCompositeSuggestions"


(***************************************************************************)
(* The result of the analysis (lines 484-496).                             *)
(***************************************************************************)
\* the selection that the effect writes for a key of the suggestion map
SelectionOf(key) ==
    CASE key = "camera" -> selectedCameras
      [] key = "lighting" -> selectedLightings
      [] key = "manipulation" -> selectedManipulations
      [] key = "retouch" -> selectedRetouches
      [] key = "peopleRetouch" -> selectedPeopleRetouches

\* the array s holds no element twice
Distinct(s) == \A i, j \in 1..Len(s) : i # j => s[i] # s[j]

\* C24: when the analysis call fulfils, the selection of each of the five
\* categories for which the returned map holds a non-empty list becomes
\* exactly the presets of that category whose id is in the list, replacing
\* the prior selection; a category with a missing or empty list keeps its
\* prior selection; the suggestion map becomes the returned map.
C24_SuggestionsReplaceSelections ==
    [][lastOp'.op = "analyzeFulfilled" =>
          /\ \A key \in SuggestionKeys :
                 LET ids == Get(lastOp'.arg, key)
                 IN  IF Len(ids) > 0
                     THEN /\ \A q \in Range(PresetsOf(key)) :
                                Includes(SelectionOf(key)', q) <=> Includes(ids, q)
                          /\ Range(SelectionOf(key)') \subseteq Range(PresetsOf(key))
                          /\ Distinct(SelectionOf(key)')
                     ELSE SelectionOf(key)' = SelectionOf(key)
          /\ suggestedPresetIds' = lastOp'.arg]_vars

\* the analysis suggested one camera and an id that no camera has: the
\* cameras are the suggested camera alone, and the lighting that the user
\* had picked, for which nothing was suggested, is kept
C24_Witness ==
    /\ lastOp.op = "analyzeFulfilled"
    /\ Get(lastOp.arg, "camera") = <<"cam1", "unlisted">>
    /\ selectedCameras = <<"cam1">>
    /\ selectedLightings = <<"light1">>
    /\ suggestedPresetIds = lastOp.arg


(***************************************************************************)
(* One run of the analysis, from the state in which it started: the user   *)
(* had picked the first camera and then uploaded the product and the       *)
(* reference image, so the effect issued its call with the cameras         *)
(* <<"cam1">> and every other list at its default.  While the call is out  *)
(* and after it settled the user clicks presets and mockups and switches   *)
(* the magic composite off; nothing starts a second run.                   *)
(***************************************************************************)
StartSelections ==
    SelectionsAre(<<CAMERA_PRESETS[2]>>, <<LIGHTING_PRESETS[1]>>,
                  <<MANIPULATION_PRESETS[1]>>, <<PEOPLE_RETOUCH_PRESETS[1]>>,
                  <<RETOUCH_PRESETS[1]>>, <<MOCKUP_PRESETS[1]>>)

InitAnalysis ==
    /\ StartSelections
    /\ appMode = "design-kit"
    /\ creativeMode = "illustrate"
    /\ retouchSubMode = "smart"
    /\ isOnline = TRUE
    /\ productImage = "imgA" /\ referenceImage = "imgA"
    /\ illustrationImage = NULL /\ personImage = NULL
    /\ generatedImage = NULL /\ illustrationResultImage = NULL
    /\ retouchResultImage = NULL
    /\ customPrompt = "" /\ illustrationCustomPrompt = "" /\ artistCommand = ""
    /\ useMagicComposite = TRUE
    /\ isAnalyzing = TRUE
    /\ suggestedPresetIds = EmptyMap
    /\ error = NULL /\ creativeError = NULL /\ upscaleError = NULL
    /\ isLoading = FALSE /\ isGeneratingDKPrompt = FALSE
    /\ isGeneratingCreative = FALSE /\ isGeneratingIllustration = FALSE
    /\ isVectorizing = FALSE /\ isGeneratingPrompt = FALSE
    /\ isGeneratingRetouchPrompts = FALSE
    /\ isUpscaling = NotUpscaling
    /\ generationStatusText = ""
    /\ generationHistory = <<>>
    /\ calls = {[id |-> 1, fn |-> "analyzeForCompositeSuggestions",
                 source |-> ImagePair("imgA", "imgA"),
                 prompt |-> NULL, mode |-> NULL, sub |-> NULL, target |-> NULL]}
    /\ clock = 0
    /\ lastOp = Op("setReferenceImage", "imgA")

NextAnalysis ==
    \/ ClickPreset
    \/ SelectMockup
    \/ handleMagicCompositeToggle(FALSE)
    \/ \E c \in calls, suggestions \in SuggestionMaps : analyzeFulfilled(c, suggestions)
    \/ \E c \in calls : analyzeRejected(c)

SpecAnalysis == InitAnalysis /\ [][NextAnalysis]_vars

AnalysisFailedMessage == "AI analysis failed. Please check the console for details."

\* C25 as claimed: once the analysis call has rejected, the error is the
\* analysis-failed message, the six selections are what they were before
\* the run started (in SpecAnalysis: StartSelections) and the analyzing
\* flag is false.
C25_RejectionRestoresStart ==
    lastOp.op = "analyzeRejected" =>
        /\ error = AnalysisFailedMessage
        /\ StartSelections
        /\ ~isAnalyzing

\* C25: when the analysis call rejects, the analysis-failed error is set,
\* the six preset selections are exactly what they were immediately before
\* the rejection was handled, and the analyzing flag returns to false.
C25_RejectionLeavesSelections ==
    [][lastOp'.op = "analyzeRejected" =>
          /\ error' = AnalysisFailedMessage
          /\ UNCHANGED selVars
          /\ ~isAnalyzing']_vars

\* the call rejected after the user had switched the magic composite off
\* and picked a lighting while it was out
C25_Witness ==
    /\ lastOp.op = "analyzeRejected"
    /\ error = AnalysisFailedMessage
    /\ ~isAnalyzing
    /\ ~useMagicComposite
    /\ selectedCameras = <<"none">>
    /\ selectedLightings = <<"light1">>


\* C30: in every reachable state, after any sequence of toggles, resets and
\* analysis completions, no preset selection of any category holds two
\* presets with the same id.
C30_NoDuplicateIds ==
    /\ \A key \in SuggestionKeys : Distinct(SelectionOf(key))
    /\ Distinct(selectedMockups)

\* an analysis selected two cameras and the user then picked a lighting
C30_Witness ==
    /\ lastOp.op = "handleLightingToggle"
    /\ selectedCameras = <<"none", "cam1">>
    /\ selectedLightings = <<"light1">>
    /\ Get(suggestedPresetIds, "camera") = <<"none", "cam1">>


(***************************************************************************)
(* Mode switches around running pipelines.  The three source images and    *)
(* the reference image are uploaded, the design-kit prompt is typed and    *)
(* the analysis that the uploads started has returned an empty map.  The   *)
(* user switches the mode, the                                             *)
(* creative sub-mode and the retouch sub-mode at any moment, also while a  *)
(* call is out, runs the composite generation, the illustration and the    *)
(* smart retouch, and upscales the result on screen.  A generation returns *)
(* resA or fails, an upscale returns resB, nothing or fails, the analysis  *)
(* that a switch back to the design kit starts returns an empty map or     *)
(* fails.  One pipeline call is out at a time and at most                  *)
(* MaxSwitchAppends items are appended.                                    *)
(***************************************************************************)
GenerationOutcomes == Outcomes({"resA"}, {"Network request failed"}) \ {Empty}
UpscaleOutcomes == Outcomes({"resB"}, {"Network request failed"})

PipelineCalls(cs) == {c \in cs : c.fn # "analyzeForCompositeSuggestions"}

SwitchBounded ==
    /\ Cardinality(PipelineCalls(calls')) <= MaxRunCalls
    /\ clock' <= MaxSwitchAppends

InitSwitch ==
    /\ InitSelections
    /\ appMode = "design-kit"
    /\ creativeMode = "illustrate"
    /\ retouchSubMode = "smart"
    /\ isOnline = TRUE
    /\ productImage = "imgA" /\ referenceImage = "imgA"
    /\ illustrationImage = "imgA" /\ personImage = "imgA"
    /\ generatedImage = NULL /\ illustrationResultImage = NULL
    /\ retouchResultImage = NULL
    /\ customPrompt = "a prompt" /\ illustrationCustomPrompt = "" /\ artistCommand = ""
    /\ useMagicComposite = TRUE
    /\ isAnalyzing = FALSE
    /\ suggestedPresetIds = EmptyMap
    /\ error = NULL /\ creativeError = NULL /\ upscaleError = NULL
    /\ isLoading = FALSE /\ isGeneratingDKPrompt = FALSE
    /\ isGeneratingCreative = FALSE /\ isGeneratingIllustration = FALSE
    /\ isVectorizing = FALSE /\ isGeneratingPrompt = FALSE
    /\ isGeneratingRetouchPrompts = FALSE
    /\ isUpscaling = NotUpscaling
    /\ generationStatusText = ""
    /\ generationHistory = <<>>
    /\ calls = {}
    /\ clock = 0
    /\ lastOp = Op("analyzeFulfilled", EmptyMap)

NextSwitch ==
    \/ \E mode \in AppMode : setAppMode(mode)
    \/ \E mode \in CreativeMode : setCreativeMode(mode)
    \/ \E mode \in RetouchSubMode : setRetouchSubMode(mode)
    \/ handleDesignKitGeneration /\ SwitchBounded
    \/ handleGenerateIllustration /\ SwitchBounded
    \/ handleSmartRetouch /\ SwitchBounded
    \/ \E target \in UpscaleTarget : handleUpscale(target) /\ SwitchBounded
    \/ \E c \in calls, outcome \in GenerationOutcomes :
           generateImageSettled(c, outcome) /\ SwitchBounded
    \/ \E c \in calls, outcome \in GenerationOutcomes :
           generateIllustrationSettled(c, outcome) /\ SwitchBounded
    \/ \E c \in calls, outcome \in GenerationOutcomes :
           performSmartRetouchSettled(c, outcome) /\ SwitchBounded
    \/ \E c \in calls, outcome \in UpscaleOutcomes :
           upscaleImageSettled(c, outcome) /\ SwitchBounded
    \/ \E c \in calls : analyzeFulfilled(c, EmptyMap)
    \/ \E c \in calls : analyzeRejected(c)

SpecSwitch == InitSwitch /\ [][NextSwitch]_vars


ModeSwitchers == {"setAppMode", "setCreativeMode", "setRetouchSubMode"}

\* C26: a switch of the mode, of the creative sub-mode or of the retouch
\* sub-mode changes, of the three mode variables, only its own, and leaves
\* every source image, result image, prompt, error slot, busy flag, preset
\* selection and the history unchanged; the analysis state changes only
\* when the effect starts an analysis after a switch to the design kit,
\* which writes the analyzing flag and the suggestion map and nothing else.
C26_ModeSwitchChangesOnlyMode ==
    [][lastOp'.op \in ModeSwitchers =>
          /\ lastOp'.op = "setAppMode" => UNCHANGED <<creativeMode, retouchSubMode>>
          /\ lastOp'.op = "setCreativeMode" => UNCHANGED <<appMode, retouchSubMode>>
          /\ lastOp'.op = "setRetouchSubMode" => UNCHANGED <<appMode, creativeMode>>
          /\ UNCHANGED <<isOnline, imageVars, resultVars, promptVars, errorVars, busyVars,
                         selVars, generationHistory, useMagicComposite>>
          /\ ~AnalysisIssued => UNCHANGED <<isAnalyzing, suggestedPresetIds, calls>>]_vars

\* the sub-mode was switched to retouch while the illustration call was
\* out, with a composite on screen and an upscale error pending
C26_Witness ==
    /\ lastOp.op = "setCreativeMode"
    /\ lastOp.arg = "retouch"
    /\ creativeMode = "retouch"
    /\ isGeneratingIllustration
    /\ generationStatusText = "Sketching your vision..."
    /\ generatedImage = "resA"
    /\ upscaleError = "Network request failed"
    /\ Len(generationHistory) = 1


\* C27: an upscale whose precondition holds issues its call for the source
\* image of the mode and creative sub-mode current when the handler runs
\* (design-kit: product image, retouch: person image, illustrate:
\* illustration image) and upscales the matching result; when the call
\* returns an image, the image is written into the result field of that
\* same mode and sub-mode and into no other, and one history item with that
\* mode, that source and the returned image is put in front of the
\* history, whatever the mode and sub-mode are when the call settles.
C27_UpscaleKeepsInvocationTarget ==
    [][/\ (lastOp'.op = "handleUpscale" /\ lastOp'.arg \in UpscaleTarget) =>
              /\ ImageToUpscale # NULL
              /\ \E c \in calls' :
                     /\ c \notin calls
                     /\ c.fn = "upscaleImage"
                     /\ c.mode = appMode
                     /\ c.sub = creativeMode
                     /\ c.source = UpscaleSource
       /\ SettledWith("upscaleImageSettled", "result") =>
              LET c == SettledCall
                  value == lastOp'.arg.value
                  designKit == c.mode = "design-kit"
                  retouch == c.mode # "design-kit" /\ c.sub = "retouch"
                  illustrate == c.mode # "design-kit" /\ c.sub # "retouch"
              IN  /\ generatedImage' = (IF designKit THEN value ELSE generatedImage)
                  /\ retouchResultImage' = (IF retouch THEN value ELSE retouchResultImage)
                  /\ illustrationResultImage' =
                         (IF illustrate THEN value ELSE illustrationResultImage)
                  /\ Appends
                  /\ Len(generationHistory') = Len(generationHistory) + 1
                  /\ generationHistory'[1].mode = c.mode
                  /\ generationHistory'[1].source = c.source
                  /\ generationHistory'[1].generated = value]_vars

\* an upscale started on the composite in the design kit returned its
\* image after the user had switched to the creative studio
C27_Witness ==
    /\ lastOp.op = "upscaleImageSettled"
    /\ lastOp.arg.kind = "result"
    /\ appMode = "creative-studio"
    /\ generatedImage = "resB"
    /\ illustrationResultImage = NULL
    /\ retouchResultImage = NULL
    /\ Len(generationHistory) = 2
    /\ generationHistory[1].mode = "design-kit"
    /\ generationHistory[1].generated = "resB"


\* the handler whose call the settle step op completes
HandlerOf(op) ==
    CASE op = "generateImageSettled" -> "handleDesignKitGeneration"
      [] op = "generateDesignKitPromptSettled" -> "handleGenerateDKPrompt"
      [] op = "generateIllustrationPromptsSettled" -> "handleGenerateCreativePrompts"
      [] op = "generateIllustrationSettled" -> "handleGenerateIllustration"
      [] op = "vectorizeImageSettled" -> "handleDownloadVector"
      [] op = "performSmartRetouchSettled" -> "handleSmartRetouch"
      [] op = "generateEnvironmentSettled" -> "handleEnvironmentGeneration"
      [] op = "generateRetouchPromptsSettled" -> "handleGenerateRetouchPrompts"
      [] op = "upscaleImageSettled" -> "handleUpscale"

\* C28: the busy flag of a pipeline changes only in a step of that
\* pipeline (its handler starting a run, or its call settling), so a step
\* of one pipeline never marks another pipeline busy or idle; and a
\* handler whose precondition holds issues its call whatever busy flags
\* are set, so a busy pipeline does not prevent another from being started.
C28_BusyFlagsIndependent ==
    [][/\ \A op \in SettleOps :
             Busy(op)' # Busy(op) => lastOp'.op \in {HandlerOf(op), op}
       /\ \A h \in RunHandlers :
             (Ran(h) /\ ~PreconditionFails(h)) => \E c \in calls' : c \notin calls]_vars


\* C29: the history grows only in a step in which a generation call or an
\* upscale call fulfils with an image: it does not grow on a failed
\* precondition, an empty result, a rejected call, a prompt-suggestion or
\* vectorize run, a mode switch, an upload or a history selection.
C29_HistoryGrowsOnlyOnResult ==
    [][Len(generationHistory') > Len(generationHistory) =>
          /\ lastOp'.op \in GenerationSettleOps \cup {"upscaleImageSettled"}
          /\ lastOp'.arg.kind = "result"
          /\ Len(generationHistory') = Len(generationHistory) + 1]_vars

\* the history holds the one composite that returned an image: the smart
\* retouch whose call was rejected afterwards added nothing
C29_Witness ==
    /\ lastOp.op = "performSmartRetouchSettled"
    /\ lastOp.arg.kind = "throw"
    /\ creativeError = "Network request failed"
    /\ illustrationResultImage = NULL
    /\ generatedImage = "resA"
    /\ Len(generationHistory) = 1


\* C31 as claimed: the item that a fulfilled upscale puts in front of the
\* history has the prompt "Upscaled to HD" or "Upscaled to 4K", by the
\* target of the call, in every mode.
C31_UpscaleItemsCarryLabel ==
    [][SettledWith("upscaleImageSettled", "result") =>
          generationHistory'[1].prompt \in {"Upscaled to HD", "Upscaled to 4K"}]_vars

\* C31: the item that a fulfilled upscale puts in front of the history has
\* the prompt "Upscaled to HD" or "Upscaled to 4K", by the target of the
\* call, when the upscale was invoked in the creative studio; when it was
\* invoked in the design kit, the item has the custom prompt of the moment
\* of the invocation.
C31_UpscaleItemPrompt ==
    [][SettledWith("upscaleImageSettled", "result") =>
          LET c == SettledCall
          IN  generationHistory'[1].prompt =
                  (IF c.mode = "design-kit" THEN c.prompt
                   ELSE IF c.target = "hd" THEN "Upscaled to HD" ELSE "Upscaled to 4K")]_vars

\* a 4K upscale of a retouch result has been recorded
C31_Witness ==
    /\ lastOp.op = "upscaleImageSettled"
    /\ lastOp.arg.kind = "result"
    /\ generationHistory[1].mode = "creative-studio"
    /\ generationHistory[1].creativeSubMode = "retouch"
    /\ generationHistory[1].prompt = "Upscaled to 4K"
    /\ retouchResultImage = "resB"


\* the busy flag of the pipeline that issued the call c
BusyFor(c) ==
    IF c.fn = "analyzeForCompositeSuggestions" THEN isAnalyzing
    ELSE Busy(c.fn \o "Settled")

\* C32: in every state the busy flag of a pipeline is true when a call of
\* that pipeline is outstanding, also when the pipeline was run twice and
\* one of its two calls has settled.
C32_BusyWhileOutstanding == \A c \in calls : BusyFor(c)


ToggleHandlers ==
    {"handleCameraToggle", "handleLightingToggle", "handleManipulationToggle",
     "handlePeopleRetouchToggle", "handleRetouchToggle"}

\* C33: while the magic-composite flag is off, the suggestion map is empty
\* and the camera, lighting, manipulation, retouch and people-retouch
\* selections change only by a toggle of the user; an analysis call that
\* was issued before the flag was switched off and settles afterwards
\* writes neither the selections nor the suggestion map.
C33_DisabledFlagKeepsReset ==
    [][~useMagicComposite' =>
          /\ suggestedPresetIds' = EmptyMap
          /\ (~useMagicComposite /\ multiSelVars' # multiSelVars) =>
                 lastOp'.op \in ToggleHandlers]_vars


\* C34: in the state that a history selection leaves, the settling of a
\* call (a generation, an upscale, a prompt or vector call, an analysis),
\* which was in flight when the item was selected, leaves the result
\* image, the source image and the error slots of the item's mode as the
\* selection restored them.
C34_SelectionSurvivesSettling ==
    [][(lastOp.op = "handleHistorySelect" /\
        lastOp'.op \in SettleOps \cup {"analyzeFulfilled", "analyzeRejected"}) =>
          LET item == lastOp.arg.item
          IN  /\ UNCHANGED upscaleError
              /\ IsDesignKit(item) => UNCHANGED <<generatedImage, productImage, error>>
              /\ IsIllustrate(item) =>
                     UNCHANGED <<illustrationResultImage, illustrationImage, creativeError>>
              /\ IsRetouch(item) =>
                     UNCHANGED <<retouchResultImage, personImage, creativeError>>]_vars


\* C35 as claimed: a history selection leaves the result image, the source
\* image and the prompt of the modes other than the item's as they were.
C35_SelectKeepsOtherModes ==
    [][lastOp'.op = "handleHistorySelect" =>
          LET item == lastOp'.arg.item
          IN  /\ ~IsDesignKit(item) => UNCHANGED <<generatedImage, productImage, customPrompt>>
              /\ ~IsIllustrate(item) =>
                     UNCHANGED <<illustrationResultImage, illustrationImage,
                                 illustrationCustomPrompt>>
              /\ ~IsRetouch(item) =>
                     UNCHANGED <<retouchResultImage, personImage, artistCommand>>]_vars

\* C35: a history selection leaves the source image and the prompt of the
\* modes other than the item's as they were, and resets the result image of
\* those modes to null.
C35_SelectKeepsOtherSources ==
    [][lastOp'.op = "handleHistorySelect" =>
          LET item == lastOp'.arg.item
          IN  /\ ~IsDesignKit(item) =>
                     generatedImage' = NULL /\ UNCHANGED <<productImage, customPrompt>>
              /\ ~IsIllustrate(item) =>
                     /\ illustrationResultImage' = NULL
                     /\ UNCHANGED <<illustrationImage, illustrationCustomPrompt>>
              /\ ~IsRetouch(item) =>
                     retouchResultImage' = NULL /\ UNCHANGED <<personImage, artistCommand>>]_vars

\* a design-kit item has been selected: the illustration keeps its source
\* image and its prompt and has no result
C35_Witness ==
    /\ Selected
    /\ IsDesignKit(SelectedItem)
    /\ generatedImage = "resA"
    /\ illustrationImage = "imgB"
    /\ illustrationCustomPrompt = "a prompt"
    /\ illustrationResultImage = NULL
    /\ retouchResultImage = NULL

(***************************************************************************)
(* Sessions that come to rest.  The session starts as the one of the mode  *)
(* switches: online, on the design kit, with an image uploaded in each     *)
(* source slot.  The user switches the magic composite off and on, which   *)
(* starts an analysis, and runs any pipeline while up to MaxCalls calls    *)
(* are out.  A call returns the image resA, returns nothing or fails; an   *)
(* analysis returns an empty map or fails.  At most MaxOverlapAppends      *)
(* items are appended.  Every call that is out settles in the end: no      *)
(* call of src/services/geminiService stays pending forever.               *)
(***************************************************************************)
QuiesceBounded ==
    /\ Cardinality(PipelineCalls(calls')) <= MaxRunCalls
    /\ clock' <= MaxOverlapAppends

NextQuiesce ==
    \/ \E enabled \in BOOLEAN : handleMagicCompositeToggle(enabled)
    \/ handleDesignKitGeneration /\ QuiesceBounded
    \/ handleGenerateDKPrompt /\ QuiesceBounded
    \/ handleGenerateCreativePrompts /\ QuiesceBounded
    \/ handleGenerateIllustration /\ QuiesceBounded
    \/ handleDownloadVector /\ QuiesceBounded
    \/ handleSmartRetouch /\ QuiesceBounded
    \/ handleEnvironmentGeneration /\ QuiesceBounded
    \/ handleGenerateRetouchPrompts /\ QuiesceBounded
    \/ \E target \in UpscaleTarget : handleUpscale(target) /\ QuiesceBounded
    \/ \E c \in calls, outcome \in OverlapOutcomes : generateImageSettled(c, outcome) /\ QuiesceBounded
    \/ \E c \in calls, outcome \in OverlapOutcomes : generateDesignKitPromptSettled(c, outcome)
    \/ \E c \in calls, outcome \in OverlapOutcomes : generateIllustrationPromptsSettled(c, outcome)
    \/ \E c \in calls, outcome \in OverlapOutcomes :
           generateIllustrationSettled(c, outcome) /\ QuiesceBounded
    \/ \E c \in calls, outcome \in OverlapOutcomes : vectorizeImageSettled(c, outcome)
    \/ \E c \in calls, outcome \in OverlapOutcomes :
           performSmartRetouchSettled(c, outcome) /\ QuiesceBounded
    \/ \E c \in calls, outcome \in OverlapOutcomes :
           generateEnvironmentSettled(c, outcome) /\ QuiesceBounded
    \/ \E c \in calls, outcome \in OverlapOutcomes : generateRetouchPromptsSettled(c, outcome)
    \/ \E c \in calls, outcome \in OverlapOutcomes : upscaleImageSettled(c, outcome) /\ QuiesceBounded
    \/ \E c \in calls : analyzeFulfilled(c, EmptyMap)
    \/ \E c \in calls : analyzeRejected(c)

\* a call that was out settles in the step
CallSettles == calls' # calls /\ calls' \subseteq calls

\* a trigger of the user issues a call in the step
CallIssued == \E c \in calls' : c \notin calls

\* every issued call eventually settles
SpecQuiesce == InitSwitch /\ [][NextQuiesce]_vars /\ WF_calls(NextQuiesce /\ CallSettles)

\* every busy flag is false and the status text is empty
Quiescent ==
    /\ ~isLoading
    /\ ~isGeneratingIllustration
    /\ ~isGeneratingCreative
    /\ isUpscaling = NotUpscaling
    /\ ~isVectorizing
    /\ ~isAnalyzing
    /\ ~isGeneratingDKPrompt /\ ~isGeneratingPrompt /\ ~isGeneratingRetouchPrompts
    /\ generationStatusText = ""

\* C36: if every issued call eventually settles and the user eventually stops
\* triggering operations, the controller eventually comes to rest with no
\* call out, every busy flag false and the status text empty; no call out
\* means the controller is at rest, and a call that settles while it is at
\* rest leaves it at rest, so that only the next trigger ends the rest
C36_EventuallyQuiescent ==
    /\ [](calls = {} => Quiescent)
    /\ [][(Quiescent /\ CallSettles) => Quiescent']_vars
    /\ ([]<><<CallIssued>>_calls \/ <>[](calls = {} /\ Quiescent))

\* two calls went out and both have settled, the second one with a failure:
\* the session is at rest with the message of the failure
C36_Witness ==
    /\ lastOp.op \in SettleOps
    /\ lastOp.arg.kind = "throw"
    /\ calls = {}
    /\ Quiescent
    /\ generationHistory # <<>>
    /\ creativeError # NULL

\* C37: while a generation pipeline's busy flag is true, the result field it
\* owns is null: composite busy implies no design-kit result, illustration
\* busy implies no illustration result, creative busy implies no retouch
\* result
C37_BusyMeansNoResult ==
    /\ isLoading => generatedImage = NULL
    /\ isGeneratingIllustration => illustrationResultImage = NULL
    /\ isGeneratingCreative => retouchResultImage = NULL

(***************************************************************************)
(* Analyses of changing images.  The session starts as the one of the      *)
(* presets, online on the design kit with no image loaded;                 *)
(* the user uploads product and reference images, one after another and    *)
(* again while an analysis is out; the magic composite stays on, so that   *)
(* every pair that is loaded is analysed.  Every analysis succeeds: the    *)
(* service returns the map SuggestionsFor of the two images it was called  *)
(* with.  Up to MaxCalls analyses are out together, and they settle in any *)
(* order.                                                                  *)
(***************************************************************************)
\* what analyzeForCompositeSuggestions returns for a pair of images: a
\* camera for the product image, and one more when the reference is imgB
SuggestionsFor(pair) ==
    {<<"camera",
       (IF pair \in {ImagePair("imgA", i) : i \in Images} THEN <<"cam1">> ELSE <<"cam2">>)
       \o (IF pair \in {ImagePair(i, "imgB") : i \in Images} THEN <<"cam3">> ELSE <<>>)>>}

NextStale ==
    \/ \E image \in Images : setProductImage(image)
    \/ \E image \in Images : setReferenceImage(image)
    \/ \E c \in calls : analyzeFulfilled(c, SuggestionsFor(c.source))

SpecStale == InitPresets /\ [][NextStale]_vars

\* the pair of images that is loaded
LoadedPair == ImagePair(productImage, referenceImage)

\* C38: once all outstanding analysis calls have settled successfully, the
\* suggestion map and the selection derived from it are those returned for
\* the product and reference image that are loaded: a response for an
\* earlier pair that settles after the response for the current pair does
\* not overwrite it
C38_CurrentPairWins ==
    (lastOp.op = "analyzeFulfilled" /\ calls = {}) =>
        /\ suggestedPresetIds = SuggestionsFor(LoadedPair)
        /\ selectedCameras =
               FilterSuggested(CAMERA_PRESETS, Get(SuggestionsFor(LoadedPair), "camera"))

(***************************************************************************)
(* Runs after an image was removed.  The session starts as the one of the  *)
(* overlapping pipelines: online, in either mode and sub-mode, with an     *)
(* image in the product, illustration and portrait slots.  The user        *)
(* removes an image and uploads it again, also while a call is out or a    *)
(* result is on screen, and runs any pipeline.  A call returns the image   *)
(* resA or fails.  At most MaxRunCalls calls are outstanding and at most   *)
(* MaxRunAppends items are appended.                                       *)
(***************************************************************************)
NextGuards ==
    \/ \E image \in UploadedImages : setProductImage(image)
    \/ \E image \in UploadedImages : setIllustrationImage(image)
    \/ \E image \in UploadedImages : setPersonImage(image)
    \/ handleDesignKitGeneration /\ RunsBounded
    \/ handleGenerateDKPrompt /\ RunsBounded
    \/ handleGenerateCreativePrompts /\ RunsBounded
    \/ handleGenerateIllustration /\ RunsBounded
    \/ handleDownloadVector /\ RunsBounded
    \/ handleSmartRetouch /\ RunsBounded
    \/ handleEnvironmentGeneration /\ RunsBounded
    \/ handleGenerateRetouchPrompts /\ RunsBounded
    \/ \E target \in UpscaleTarget : handleUpscale(target) /\ RunsBounded
    \/ \E c \in calls, outcome \in GenerationOutcomes : generateImageSettled(c, outcome) /\ RunsBounded
    \/ \E c \in calls, outcome \in GenerationOutcomes : generateDesignKitPromptSettled(c, outcome)
    \/ \E c \in calls, outcome \in GenerationOutcomes : generateIllustrationPromptsSettled(c, outcome)
    \/ \E c \in calls, outcome \in GenerationOutcomes :
           generateIllustrationSettled(c, outcome) /\ RunsBounded
    \/ \E c \in calls, outcome \in GenerationOutcomes : vectorizeImageSettled(c, outcome)
    \/ \E c \in calls, outcome \in GenerationOutcomes :
           performSmartRetouchSettled(c, outcome) /\ RunsBounded
    \/ \E c \in calls, outcome \in GenerationOutcomes :
           generateEnvironmentSettled(c, outcome) /\ RunsBounded
    \/ \E c \in calls, outcome \in GenerationOutcomes : generateRetouchPromptsSettled(c, outcome)
    \/ \E c \in calls, outcome \in GenerationOutcomes : upscaleImageSettled(c, outcome) /\ RunsBounded

SpecGuards == InitOverlap /\ [][NextGuards]_vars

====
